---- MODULE Spec2Model ----
(***************************************************************************)
(* NES emulator core: 6502 CPU (src/emulator/cpu.ts), the two Memory      *)
(* buses, the NROM cartridge, the PPU dot/scanline counter with its NMI   *)
(* latch, and the two frame drivers (Clock.stepFrame, NesConsole.runFrame).*)
(***************************************************************************)
EXTENDS Integers, Sequences, FiniteSets, TLC

\* ---------------------------------------------------------------- bounds
MaxCalls    == 1    \* frame-driver calls made by the host
MaxTriggers == 2    \* triggerNMI / triggerIRQ calls made by the host
MaxResets   == 1    \* CPU.reset calls made by the host after construction
MaxSteps    == 8   \* CPU.step calls made by the host in the CPU harness

\* ------------------------------------------------------- JavaScript values
\* An out-of-range typed-array read yields undefined, and arithmetic on it
\* yields NaN; bitwise operators coerce both to 0 and every comparison with
\* them is false.  One value outside the integers the program computes
\* stands for both.
Undefined == 0 - (2 ^ 30)

ToInt32(v) == IF v = Undefined THEN 0 ELSE v
IsNumber(v) == v # Undefined
JsAdd(a, b) == IF IsNumber(a) /\ IsNumber(b) THEN a + b ELSE Undefined
JsSub(a, b) == IF IsNumber(a) /\ IsNumber(b) THEN a - b ELSE Undefined

RECURSIVE BitAnd(_, _)
BitAnd(a, b) ==
  IF a = 0 \/ b = 0 THEN 0
  ELSE (a % 2) * (b % 2) + 2 * BitAnd(a \div 2, b \div 2)

RECURSIVE BitOr(_, _)
BitOr(a, b) ==
  IF a = 0 THEN b
  ELSE IF b = 0 THEN a
  ELSE (IF a % 2 = 1 \/ b % 2 = 1 THEN 1 ELSE 0) + 2 * BitOr(a \div 2, b \div 2)

RECURSIVE BitXor(_, _)
BitXor(a, b) ==
  IF a = 0 THEN b
  ELSE IF b = 0 THEN a
  ELSE ((a + b) % 2) + 2 * BitXor(a \div 2, b \div 2)

JsOr(a, b)  == BitOr(ToInt32(a), ToInt32(b))
JsAnd(a, b) == BitAnd(ToInt32(a), ToInt32(b))
JsShl(a, n) == ToInt32(a) * (2 ^ n)
JsShr(a, n) == ToInt32(a) \div (2 ^ n)

\* A method call this.f(a[1], ...) on the CPU, the Memory or the PPU; its
\* definition follows the methods.
RECURSIVE Call(_, _)

\* The element of a one-element set {e(y) : y \in {x}}: e applied to the
\* value of x, with x evaluated once.
Once(S) == CHOOSE r \in S : TRUE

\* Zero-initialised typed arrays, kept sparse: absent index = 0.
EmptyArray == [i \in {} |-> 0]
ArrayGet(arr, i) == IF i \in DOMAIN arr THEN arr[i] ELSE 0
ArrayPut(arr, i, v) ==
  IF v = 0 THEN [j \in DOMAIN arr \ {i} |-> arr[j]]
  ELSE [j \in DOMAIN arr \cup {i} |-> IF j = i THEN v ELSE arr[j]]

\* ---------------------------------------------------------------- CpuFlags
Carry            == 1
Zero             == 2
InterruptDisable == 4
Decimal          == 8
Break            == 16
Unused           == 32
Overflow         == 64
Negative         == 128

NMI_VECTOR   == 65530
RESET_VECTOR == 65532
IRQ_VECTOR   == 65534

getFlag(sr, flag) == (ToInt32(sr) \div flag) % 2 = 1
setFlag(sr, flag, value) ==
  IF value THEN (IF getFlag(sr, flag) THEN ToInt32(sr) ELSE ToInt32(sr) + flag)
  ELSE (IF getFlag(sr, flag) THEN ToInt32(sr) - flag ELSE ToInt32(sr))

\* ------------------------------------------------------------- cartridges
PRG_BANK_SIZE == 16384

\* ROM images as laid out by createFakeNromRom: PRG bytes by offset in the
\* combined PRG area, every other byte the fill value.
RomImages ==
  << \* 1: one bank; CLI, BRK, SEI, NOP, JMP $8000; both handlers RTI
     [banks |-> 1, chrBanks |-> 0, mirroring |-> "Horizontal", fill |-> 234,
      code |-> (0 :> 88) @@ (1 :> 0) @@ (2 :> 234) @@ (3 :> 120) @@ (4 :> 234) @@
               (5 :> 76) @@ (6 :> 0) @@ (7 :> 128) @@
               (4096 :> 64) @@ (8192 :> 64) @@
               (16378 :> 0) @@ (16379 :> 144) @@ (16380 :> 0) @@ (16381 :> 128) @@
               (16382 :> 0) @@ (16383 :> 160)],
     \* 2: two banks, reset at $C000; LDX #1, TXS, CLI, NOP, JMP $C003;
     \*    NMI handler NOP, RTI; IRQ handler RTI
     [banks |-> 2, chrBanks |-> 0, mirroring |-> "Horizontal", fill |-> 234,
      code |-> (16384 :> 162) @@ (16385 :> 1) @@ (16386 :> 154) @@ (16387 :> 88) @@
               (16388 :> 234) @@ (16389 :> 76) @@ (16390 :> 3) @@ (16391 :> 192) @@
               (4096 :> 234) @@ (4097 :> 64) @@ (8192 :> 64) @@
               (32762 :> 0) @@ (32763 :> 144) @@ (32764 :> 0) @@ (32765 :> 192) @@
               (32766 :> 0) @@ (32767 :> 160)],
     \* 3: one bank; LDA #0, BEQ -4 (taken branch loop), then NOPs
     [banks |-> 1, chrBanks |-> 0, mirroring |-> "Horizontal", fill |-> 234,
      code |-> (0 :> 169) @@ (1 :> 0) @@ (2 :> 240) @@ (3 :> 252) @@
               (4096 :> 64) @@ (8192 :> 64) @@
               (16378 :> 0) @@ (16379 :> 144) @@ (16380 :> 0) @@ (16381 :> 128) @@
               (16382 :> 0) @@ (16383 :> 160)],
     \* 4: one bank; NOP, NOP, then opcode $29, which has no table entry
     [banks |-> 1, chrBanks |-> 0, mirroring |-> "Horizontal", fill |-> 234,
      code |-> (2 :> 41) @@
               (4096 :> 64) @@ (8192 :> 64) @@
               (16378 :> 0) @@ (16379 :> 144) @@ (16380 :> 0) @@ (16381 :> 128) @@
               (16382 :> 0) @@ (16383 :> 160)],
     \* 5: one bank; LDA $0234, TAX, TXS, PHA, JMP $8000, then NOPs; IRQ vector
     \*    $0200, so $FFFE holds $00 (BRK) and $FFFF holds $02, which has no
     \*    table entry
     [banks |-> 1, chrBanks |-> 0, mirroring |-> "Horizontal", fill |-> 234,
      code |-> (0 :> 173) @@ (1 :> 52) @@ (2 :> 2) @@ (3 :> 170) @@ (4 :> 154) @@
               (5 :> 72) @@ (6 :> 76) @@ (7 :> 0) @@ (8 :> 128) @@
               (16378 :> 0) @@ (16379 :> 144) @@ (16380 :> 0) @@ (16381 :> 128) @@
               (16382 :> 0) @@ (16383 :> 2)],
     \* 6: one bank of NOPs; IRQ vector $00F0, so $FFFE holds $F0 (BEQ) with
     \*    offset byte $00 and $FFFF holds $00 (BRK)
     [banks |-> 1, chrBanks |-> 0, mirroring |-> "Horizontal", fill |-> 234,
      code |-> (16378 :> 0) @@ (16379 :> 144) @@ (16380 :> 0) @@ (16381 :> 128) @@
               (16382 :> 240) @@ (16383 :> 0)],
     \* 7: one bank of NOPs; IRQ vector $D020, so $FFFF holds $D0 (BNE) whose
     \*    offset byte is RAM[0]
     [banks |-> 1, chrBanks |-> 0, mirroring |-> "Horizontal", fill |-> 234,
      code |-> (16378 :> 0) @@ (16379 :> 144) @@ (16380 :> 0) @@ (16381 :> 128) @@
               (16382 :> 32) @@ (16383 :> 208)],
     \* 8: one bank of NOPs and one CHR-ROM bank filled with $55
     [banks |-> 1, chrBanks |-> 1, mirroring |-> "Horizontal", fill |-> 234,
      chrFill |-> 85,
      code |-> (16378 :> 0) @@ (16379 :> 144) @@ (16380 :> 0) @@ (16381 :> 128) @@
               (16382 :> 0) @@ (16383 :> 160)],
     \* 9: the program of ROM 2 with one CHR-ROM bank filled with $55
     [banks |-> 2, chrBanks |-> 1, mirroring |-> "Horizontal", fill |-> 234,
      chrFill |-> 85,
      code |-> (16384 :> 162) @@ (16385 :> 1) @@ (16386 :> 154) @@ (16387 :> 88) @@
               (16388 :> 234) @@ (16389 :> 76) @@ (16390 :> 3) @@ (16391 :> 192) @@
               (4096 :> 234) @@ (4097 :> 64) @@ (8192 :> 64) @@
               (32762 :> 0) @@ (32763 :> 144) @@ (32764 :> 0) @@ (32765 :> 192) @@
               (32766 :> 0) @@ (32767 :> 160)],
     \* 10..12: the program of ROM 2 on a cartridge with Vertical mirroring
     \*    (header flags6 bit 0) and on cartridges whose mirroring field holds
     \*    SingleScreenLow and SingleScreenHigh
     [banks |-> 2, chrBanks |-> 0, mirroring |-> "Vertical", fill |-> 234,
      code |-> (16384 :> 162) @@ (16385 :> 1) @@ (16386 :> 154) @@ (16387 :> 88) @@
               (16388 :> 234) @@ (16389 :> 76) @@ (16390 :> 3) @@ (16391 :> 192) @@
               (4096 :> 234) @@ (4097 :> 64) @@ (8192 :> 64) @@
               (32762 :> 0) @@ (32763 :> 144) @@ (32764 :> 0) @@ (32765 :> 192) @@
               (32766 :> 0) @@ (32767 :> 160)],
     [banks |-> 2, chrBanks |-> 0, mirroring |-> "SingleScreenLow", fill |-> 234,
      code |-> (16384 :> 162) @@ (16385 :> 1) @@ (16386 :> 154) @@ (16387 :> 88) @@
               (16388 :> 234) @@ (16389 :> 76) @@ (16390 :> 3) @@ (16391 :> 192) @@
               (4096 :> 234) @@ (4097 :> 64) @@ (8192 :> 64) @@
               (32762 :> 0) @@ (32763 :> 144) @@ (32764 :> 0) @@ (32765 :> 192) @@
               (32766 :> 0) @@ (32767 :> 160)],
     [banks |-> 2, chrBanks |-> 0, mirroring |-> "SingleScreenHigh", fill |-> 234,
      code |-> (16384 :> 162) @@ (16385 :> 1) @@ (16386 :> 154) @@ (16387 :> 88) @@
               (16388 :> 234) @@ (16389 :> 76) @@ (16390 :> 3) @@ (16391 :> 192) @@
               (4096 :> 234) @@ (4097 :> 64) @@ (8192 :> 64) @@
               (32762 :> 0) @@ (32763 :> 144) @@ (32764 :> 0) @@ (32765 :> 192) @@
               (32766 :> 0) @@ (32767 :> 160)] >>

\* ROMs run as whole programs, and ROMs whose vector bytes serve as opcodes
\* for a program counter set to $FFFE or $FFFF.
Roms == {i \in DOMAIN RomImages : i <= 4}
VectorRoms == {i \in DOMAIN RomImages : i > 4 /\ i <= 7}

\* Cartridge.prgBanks[bank][i]; undefined past the end of the Uint8Array.
prgBanks(rom, bank, i) ==
  IF i < 0 \/ i >= PRG_BANK_SIZE THEN Undefined
  ELSE LET off == bank * PRG_BANK_SIZE + i
           img == RomImages[rom]
       IN IF off \in DOMAIN img.code THEN img.code[off] ELSE img.fill

numPrgBanks(rom) == RomImages[rom].banks

\* Outcome of a call that may throw.
TypeError == "TypeError"
UnimplementedOpcode == "UnimplementedOpcode"
NoThrow == "none"

\* Cartridge.readPrg (mapper 0): [v |-> value, thrown |-> ...].
readPrg(rom, address) ==
  IF address >= 32768
  THEN LET bankSize == IF numPrgBanks(rom) = 1 THEN 16383 ELSE 32767
           bankIdx == (address - 32768) \div 16384
       IN IF bankIdx >= numPrgBanks(rom)
          THEN [v |-> Undefined, thrown |-> TypeError]
          ELSE [v |-> prgBanks(rom, bankIdx, BitAnd(address - 32768, bankSize)),
                thrown |-> NoThrow]
  ELSE [v |-> 0, thrown |-> NoThrow]

\* ------------------------------------------------------------------- PPU
\* PPU.reset: counters, registers and NMI flags after construction.
PpuReset ==
  [cycle |-> 0, scanline |-> 0, frame |-> 0,
   ctrl |-> 128, mask |-> 30, status |-> 0, oamAddr |-> 0,
   w |-> 0, t |-> 8192, v |-> 8192, x |-> 0,
   nmiOccurred |-> 0, nmiOutput |-> 0, nmiEnabled |-> 1,
   bgPatternTable |-> 0,
   oam |-> EmptyArray, vram |-> EmptyArray,
   paletteRam |-> [i \in 0..31 |->
                     IF i % 4 = 0 THEN 15
                     ELSE IF i < 16 THEN i % 4 ELSE 16 + (i % 4)]]

PpuStep_dotZero(p) ==
  LET s1 == IF p.scanline = 261 /\ p.cycle = 1
            THEN [p EXCEPT !.status = BitAnd(@, 31)]
            ELSE p
      s2 == IF s1.scanline = 241 /\ s1.cycle = 0
            THEN [s1 EXCEPT !.status = BitOr(@, 128),
                            !.nmiOccurred = IF s1.nmiEnabled # 0 THEN 1 ELSE @]
            ELSE s1
      c  == s2.cycle + 1
  IN IF c > 340
     THEN IF s2.scanline + 1 > 261
          THEN [s2 EXCEPT !.cycle = 0, !.scanline = 0, !.frame = @ + 1]
          ELSE [s2 EXCEPT !.cycle = 0, !.scanline = @ + 1]
     ELSE [s2 EXCEPT !.cycle = c]

\* PPU.step: one dot.  The rendering calls (renderPixel, fetchBackgroundTile,
\* updateShiftRegisters, evaluateSprites) only touch the frame buffer,
\* the shifters and the sprite arrays and are left out of this record.
PpuStep(p) ==
  LET s1 == IF p.scanline = 261 /\ p.cycle = 1
            THEN [p EXCEPT !.status = BitAnd(@, 31)]
            ELSE p
      s2 == IF s1.scanline = 241 /\ s1.cycle = 1
            THEN [s1 EXCEPT !.status = BitOr(@, 128),
                            !.nmiOccurred = IF s1.nmiEnabled # 0 THEN 1 ELSE @]
            ELSE s1
      c  == s2.cycle + 1
  IN IF c > 340
     THEN IF s2.scanline + 1 > 261
          THEN [s2 EXCEPT !.cycle = 0, !.scanline = 0, !.frame = @ + 1]
          ELSE [s2 EXCEPT !.cycle = 0, !.scanline = @ + 1]
     ELSE [s2 EXCEPT !.cycle = c]

\* n calls of PPU.step in a row
RECURSIVE PpuSteps(_, _)
PpuSteps(p, n) ==
  IF n <= 0 THEN p ELSE Once({PpuSteps(q, n - 1) : q \in {PpuStep(p)}})

\* PPU.checkNMI: [v |-> 0/1, p |-> ppu afterwards]
checkNMI(p) ==
  IF p.nmiOccurred = 1 THEN [v |-> 1, p |-> [p EXCEPT !.nmiOccurred = 0]]
  ELSE [v |-> 0, p |-> p]

\* ------------------------------------------------- machine state threading
\* s = [cpu, ram, apu, prgRam, chrRam, ppu, wiring, rom, fault]; a bus read
\* returns the machine afterwards (PPU register reads have side effects)
\* together with the value read.
R(s, v) == [s |-> s, v |-> v]

\* Cartridge.mirrorVramAddress
mirrorVramAddress(mirroring, address0) ==
  LET address == BitAnd(address0 - 8192, 4095)
      a == CASE mirroring = "Horizontal" ->
                  IF address >= 2048 /\ address < 4096 THEN address - 2048 ELSE address
             [] mirroring = "Vertical" ->
                  IF address >= 2048 THEN address - 2048 ELSE address
             [] mirroring = "SingleScreenLow" -> BitAnd(address, 1023)
             [] mirroring = "SingleScreenHigh" -> BitAnd(address, 1023) + 1024
             [] OTHER -> address
  IN a + 8192

\* Memory.mapPpuAddress (the Memory that holds the PPU reference)
RECURSIVE mapPpuAddress(_, _)
mapPpuAddress(rom, address0) ==
  LET address == BitAnd(address0, 16383)
  IN IF address < 8192 THEN address
     ELSE IF address < 12288 THEN mirrorVramAddress(RomImages[rom].mirroring, address)
     ELSE IF address < 16128 THEN mapPpuAddress(rom, address - 4096)
     ELSE BitOr(16128, BitAnd(address, 31))

CHR_BANK_SIZE == 8192

InvalidChrRead == "Invalid CHR read address"
InvalidChrWrite == "Invalid CHR write address"

\* Cartridge.chrBanks[bank][i]
chrBanks(rom, bank, i) ==
  IF i < 0 \/ i >= CHR_BANK_SIZE THEN Undefined ELSE RomImages[rom].chrFill

\* Cartridge.readChr (mapper 0)
readChr(s, address) ==
  IF address >= 8192 THEN R([s EXCEPT !.fault = InvalidChrRead], Undefined)
  ELSE IF RomImages[s.rom].chrBanks > 0 THEN R(s, chrBanks(s.rom, 0, address))
  ELSE R(s, ArrayGet(s.chrRam, address))

\* PPU.readVRAM; the value.toString(16) of its log line throws on undefined.
readVRAM(s, address) ==
  LET mappedAddr == mapPpuAddress(s.rom, address)
  IN IF mappedAddr < 8192 THEN readChr(s, mappedAddr)
     ELSE IF mappedAddr < 16128
     THEN LET i == BitAnd(mappedAddr, 4095)
          IN IF i < 2048 THEN R(s, ArrayGet(s.ppu.vram, i))
             ELSE R([s EXCEPT !.fault = TypeError], Undefined)
     ELSE R(s, s.ppu.paletteRam[BitAnd(mappedAddr, 31)])

\* PPU.writeVRAM; a store past the end of the 2048-byte vram is dropped.
writeVRAM(s, address, value) ==
  LET mappedAddr == mapPpuAddress(s.rom, address)
  IN IF mappedAddr >= 16128 /\ mappedAddr < 16384
     THEN [s EXCEPT !.ppu.paletteRam[BitAnd(mappedAddr, 31)] = value]
     ELSE LET i == BitAnd(mappedAddr, 4095)
          IN IF i < 2048 THEN [s EXCEPT !.ppu.vram = ArrayPut(@, i, value)] ELSE s

getVRAMIncrement(p) == IF BitAnd(p.ctrl, 4) # 0 THEN 32 ELSE 1

readStatus(s) ==
  R([s EXCEPT !.ppu.status = IF getFlag(@, 128) THEN @ - 128 ELSE @, !.ppu.w = 0],
    s.ppu.status)

readOAMData(s) == R(s, ArrayGet(s.ppu.oam, s.ppu.oamAddr))

readData(s) ==
  LET r == Call("readVRAM", <<s, s.ppu.v>>)
  IN IF r.s.fault # NoThrow THEN r
     ELSE R([r.s EXCEPT !.ppu.v = @ + getVRAMIncrement(s.ppu)], r.v)

writeControl(s, value) ==
  LET en == (value \div 128) % 2
  IN [s EXCEPT !.ppu.ctrl = value,
               !.ppu.nmiEnabled = en,
               !.ppu.nmiOutput = BitAnd(en, s.ppu.nmiOccurred),
               !.ppu.bgPatternTable = (value \div 16) % 2,
               !.ppu.t = BitOr(BitAnd(@, 62463), BitAnd(value, 3) * 1024)]

writeMask(s, value) == [s EXCEPT !.ppu.mask = value]

writeOAMAddress(s, value) == [s EXCEPT !.ppu.oamAddr = value]

writeOAMData(s, value) ==
  [s EXCEPT !.ppu.oam = ArrayPut(@, s.ppu.oamAddr, value),
            !.ppu.oamAddr = (@ + 1) % 256]

writeScroll_ownLatch(s, value) ==
  IF s.ppu.w = 0
  THEN [s EXCEPT !.ppu.x = BitAnd(value, 7),
                 !.ppu.t = BitOr(BitAnd(@, 65504), value \div 8)]
  ELSE [s EXCEPT !.ppu.t = BitOr(BitAnd(BitOr(BitAnd(@, 36863), BitAnd(value, 7) * 4096),
                                        64543),
                                 BitAnd(value, 248) * 4),
                 !.ppu.w = 0]

writeScroll(s, value) ==
  IF s.ppu.w = 0
  THEN [s EXCEPT !.ppu.x = BitAnd(value, 7),
                 !.ppu.t = BitOr(BitAnd(@, 65504), value \div 8),
                 !.ppu.w = 1]
  ELSE [s EXCEPT !.ppu.t = BitOr(BitAnd(BitOr(BitAnd(@, 36863), BitAnd(value, 7) * 4096),
                                        64543),
                                 BitAnd(value, 248) * 4),
                 !.ppu.w = 0]

writeAddress(s, value) ==
  IF s.ppu.w = 0
  THEN [s EXCEPT !.ppu.t = BitOr(BitAnd(@, 33023), BitAnd(value, 63) * 256),
                 !.ppu.w = 1]
  ELSE LET t2 == BitOr(BitAnd(s.ppu.t, 65280), value)
       IN [s EXCEPT !.ppu.t = t2, !.ppu.v = t2, !.ppu.w = 0]

writeData(s, value) ==
  [Call("writeVRAM", <<s, s.ppu.v, value>>) EXCEPT !.ppu.v = @ + getVRAMIncrement(s.ppu)]

\* ------------------------------------------------------------ Memory buses
\* Two Memory classes exist: the one built with loadCartridge() reads the
\* PRG banks itself; the one built from a cartridge and given the PPU by
\* setPpu() goes through Cartridge.readPrg / writePrg and the PPU registers.
WiringLoadCartridge == "loadCartridge"
WiringSetPpu        == "setPpu"

\* Memory.read, loadCartridge() variant
MemoryReadDirect(s, address) ==
  LET addr == BitAnd(address, 65535)
      rom  == s.rom
  IN IF addr < 8192 THEN R(s, ArrayGet(s.ram, addr % 2048))
     ELSE IF addr >= 8192 /\ addr < 16384 THEN R(s, 0)
     ELSE IF addr >= 32768
     THEN IF numPrgBanks(rom) = 1
          THEN R(s, prgBanks(rom, 0, (addr - 32768) % 16384))
          ELSE IF numPrgBanks(rom) = 2
          THEN LET prgAddress == addr - 32768
               IN R(s, prgBanks(rom, prgAddress \div 16384, prgAddress % 16384))
          ELSE R(s, 0)
     ELSE R(s, 0)

\* Memory.write, loadCartridge() variant
MemoryWriteDirect(s, address, value) ==
  LET addr == BitAnd(address, 65535)
      val  == JsAnd(value, 255)
  IN IF addr < 8192 THEN [s EXCEPT !.ram = ArrayPut(@, addr % 2048, val)]
     ELSE s

\* Memory.read, setPpu() variant
MemoryReadPpu(s, address0) ==
  LET address == BitAnd(address0, 65535)
  IN IF address < 8192 THEN R(s, ArrayGet(s.ram, BitAnd(address, 2047)))
     ELSE IF address >= 8192 /\ address <= 16383
     THEN LET register == BitAnd(address, 7)
          IN CASE register = 0 -> R(s, s.ppu.ctrl)
               [] register = 1 -> R(s, s.ppu.mask)
               [] register = 2 -> Call("readStatus", <<s>>)
               [] register = 3 -> R(s, s.ppu.oamAddr)
               [] register = 4 -> Call("readOAMData", <<s>>)
               [] register = 7 -> Call("readData", <<s>>)
               [] OTHER -> R(s, 0)
     ELSE IF address < 16408 THEN R(s, ArrayGet(s.apu, address - 16384))
     ELSE IF address < 16416 THEN R(s, 0)
     ELSE LET r == readPrg(s.rom, address)
          IN IF r.thrown # NoThrow THEN R([s EXCEPT !.fault = r.thrown], Undefined)
             ELSE R(s, r.v)

writePrg_anywhere(s, address, value) ==
  IF address >= 24576
  THEN [s EXCEPT !.prgRam = ArrayPut(@, address - 24576, value)]
  ELSE s

\* Cartridge.writePrg (mapper 0)
writePrg(s, address, value) ==
  IF address >= 24576 /\ address < 32768
  THEN [s EXCEPT !.prgRam = ArrayPut(@, address - 24576, value)]
  ELSE s

\* Memory.write, setPpu() variant
MemoryWritePpu(s, address0, value0) ==
  LET address == BitAnd(address0, 65535)
      value   == JsAnd(value0, 255)
  IN IF address < 8192 THEN [s EXCEPT !.ram = ArrayPut(@, BitAnd(address, 2047), value)]
     ELSE IF address >= 8192 /\ address <= 16383
     THEN LET register == BitAnd(address, 7)
          IN CASE register = 0 -> Call("writeControl", <<s, value>>)
               [] register = 1 -> Call("writeMask", <<s, value>>)
               [] register = 3 -> Call("writeOAMAddress", <<s, value>>)
               [] register = 4 -> Call("writeOAMData", <<s, value>>)
               [] register = 5 -> Call("writeScroll", <<s, value>>)
               [] register = 6 -> Call("writeAddress", <<s, value>>)
               [] register = 7 -> Call("writeData", <<s, value>>)
               [] OTHER -> s
     ELSE IF address < 16408 THEN [s EXCEPT !.apu = ArrayPut(@, address - 16384, value)]
     ELSE IF address < 16416 THEN s
     ELSE Call("writePrg", <<s, address, value>>)

\* cpu.memory.read / cpu.memory.write as wired; after a throw nothing more
\* of the step runs.
BusRead(s, address) ==
  IF s.fault # NoThrow THEN R(s, Undefined)
  ELSE IF s.wiring = WiringLoadCartridge THEN Call("MemoryReadDirect", <<s, address>>)
  ELSE Call("MemoryReadPpu", <<s, address>>)

BusWrite(s, address, value) ==
  IF s.fault # NoThrow THEN s
  ELSE IF s.wiring = WiringLoadCartridge THEN Call("MemoryWriteDirect", <<s, address, value>>)
  ELSE Call("MemoryWritePpu", <<s, address, value>>)

\* --------------------------------------------------------------------- CPU
OK(s) == s.fault = NoThrow

\* Assignments to CPU fields happen only if nothing has thrown so far.
SetCpu(s, c) == IF OK(s) THEN [s EXCEPT !.cpu = c] ELSE s

updateZeroNegativeFlags(sr, value) ==
  setFlag(setFlag(sr, Zero, value = 0), Negative, JsAnd(value, 128) # 0)

pushByte(s, value) ==
  LET w == Call("BusWrite", <<s, JsOr(256, s.cpu.SP), JsAnd(value, 255)>>)
  IN SetCpu(w, [w.cpu EXCEPT !.SP = JsAnd(JsSub(s.cpu.SP, 1), 255)])

pushWord(s, value) ==
  Call("pushByte", <<Call("pushByte", <<s, JsAnd(JsShr(value, 8), 255)>>), JsAnd(value, 255)>>)

pullByte(s) ==
  LET sp == JsAnd(JsAdd(s.cpu.SP, 1), 255)
      s1 == SetCpu(s, [s.cpu EXCEPT !.SP = sp])
  IN Call("BusRead", <<s1, JsOr(256, sp)>>)

pullWord(s) ==
  LET lo == Call("pullByte", <<s>>)
      hi == Call("pullByte", <<lo.s>>)
  IN R(hi.s, JsOr(JsShl(hi.v, 8), lo.v))

fetchByte(s) ==
  LET r == Call("BusRead", <<s, s.cpu.PC>>)
  IN R(SetCpu(r.s, [r.s.cpu EXCEPT !.PC = JsAnd(JsAdd(s.cpu.PC, 1), 65535)]), r.v)

fetchWord(s) ==
  LET lo == Call("fetchByte", <<s>>)
      hi == Call("fetchByte", <<lo.s>>)
  IN R(hi.s, JsOr(JsShl(hi.v, 8), lo.v))

\* Little-endian word at a vector: read(v) | (read(v + 1) << 8)
readVector(s, vector) ==
  LET lo == Call("BusRead", <<s, vector>>)
      hi == Call("BusRead", <<lo.s, vector + 1>>)
  IN R(hi.s, JsOr(lo.v, JsShl(hi.v, 8)))

operandImmediate(s) == Call("fetchByte", <<s>>)
operandZeroPage(s) == Call("fetchByte", <<s>>)
operandZeroPageX(s) ==
  LET r == Call("fetchByte", <<s>>) IN R(r.s, JsAnd(JsAdd(r.v, s.cpu.X), 255))
operandZeroPageY(s) ==
  LET r == Call("fetchByte", <<s>>) IN R(r.s, JsAnd(JsAdd(r.v, s.cpu.Y), 255))
operandAbsolute(s) == Call("fetchWord", <<s>>)
operandAbsoluteX(s) ==
  LET r == Call("fetchWord", <<s>>) IN R(r.s, JsAnd(JsAdd(r.v, s.cpu.X), 65535))
operandAbsoluteY(s) ==
  LET r == Call("fetchWord", <<s>>) IN R(r.s, JsAnd(JsAdd(r.v, s.cpu.Y), 65535))
operandIndirectX(s) ==
  LET r  == Call("fetchByte", <<s>>)
      zeroPageAddr == JsAnd(JsAdd(r.v, s.cpu.X), 255)
      lo == Call("BusRead", <<r.s, zeroPageAddr>>)
      hi == Call("BusRead", <<lo.s, (zeroPageAddr + 1) % 256>>)
  IN R(hi.s, JsOr(JsShl(hi.v, 8), lo.v))
operandIndirectY(s) ==
  LET r  == Call("fetchByte", <<s>>)
      lo == Call("BusRead", <<r.s, r.v>>)
      hi == Call("BusRead", <<lo.s, JsAnd(JsAdd(r.v, 1), 255)>>)
      baseAddr == JsOr(JsShl(hi.v, 8), lo.v)
  IN R(hi.s, JsAnd(JsAdd(baseAddr, s.cpu.Y), 65535))

\* The operand* fetcher an instruction of the given addressing mode calls;
\* the addr* fetchers used by the stores compute the same addresses.
operand(s, mode) ==
  CASE mode = "imm" -> Call("operandImmediate", <<s>>)
    [] mode = "zp"  -> Call("operandZeroPage", <<s>>)
    [] mode = "zpx" -> Call("operandZeroPageX", <<s>>)
    [] mode = "zpy" -> Call("operandZeroPageY", <<s>>)
    [] mode = "abs" -> Call("operandAbsolute", <<s>>)
    [] mode = "abx" -> Call("operandAbsoluteX", <<s>>)
    [] mode = "aby" -> Call("operandAbsoluteY", <<s>>)
    [] mode = "inx" -> Call("operandIndirectX", <<s>>)
    [] mode = "iny" -> Call("operandIndirectY", <<s>>)

\* Value an instruction works on: the immediate byte, or memory.read of the
\* operand address.
readOperand(s, mode) ==
  IF mode = "imm" THEN Call("operandImmediate", <<s>>)
  ELSE LET a == Call("operand", <<s, mode>>) IN Call("BusRead", <<a.s, a.v>>)

Bit7(v) == (ToInt32(v) \div 128) % 2

add_noCarryIn(c, value) ==
  LET sum == JsAdd(c.A, value)
      sr1 == setFlag(c.SR, Carry, IsNumber(sum) /\ sum > 255)
      hasOverflow == Bit7(c.A) = Bit7(value) /\ Bit7(c.A) # Bit7(sum)
      sr2 == setFlag(sr1, Overflow, hasOverflow)
      a == JsAnd(sum, 255)
  IN [c EXCEPT !.A = a, !.SR = updateZeroNegativeFlags(sr2, a)]

\* CPU.add: A, SR after A + value + carry
add(c, value) ==
  LET carry == IF getFlag(c.SR, Carry) THEN 1 ELSE 0
      sum == JsAdd(JsAdd(c.A, value), carry)
      sr1 == setFlag(c.SR, Carry, IsNumber(sum) /\ sum > 255)
      hasOverflow == Bit7(c.A) = Bit7(value) /\ Bit7(c.A) # Bit7(sum)
      sr2 == setFlag(sr1, Overflow, hasOverflow)
      a == JsAnd(sum, 255)
  IN [c EXCEPT !.A = a, !.SR = updateZeroNegativeFlags(sr2, a)]

subtract(c, value) == add(c, 255 - (ToInt32(value) % 256))

compare(c, register, value) ==
  LET result == JsAnd(JsSub(register, value), 255)
      sr1 == setFlag(c.SR, Carry,
                     IsNumber(register) /\ IsNumber(value) /\ register >= value)
  IN [c EXCEPT !.SR = updateZeroNegativeFlags(sr1, result)]

bit(c, value) ==
  LET result == JsAnd(c.A, value)
  IN [c EXCEPT !.SR = setFlag(setFlag(setFlag(c.SR, Zero, result = 0),
                                      Overflow, JsAnd(value, 64) # 0),
                              Negative, JsAnd(value, 128) # 0)]

\* Shift and rotate helpers: [v |-> result, sr |-> flags afterwards]
asl(sr, value) ==
  LET result == JsAnd(JsShl(value, 1), 255)
  IN [v |-> result,
      sr |-> setFlag(setFlag(setFlag(sr, Carry, JsAnd(value, 128) # 0),
                             Zero, result = 0), Negative, JsAnd(result, 128) # 0)]

lsr(sr, value) ==
  LET result == JsShr(value, 1)
  IN [v |-> result,
      sr |-> setFlag(setFlag(setFlag(sr, Carry, JsAnd(value, 1) # 0),
                             Zero, result = 0), Negative, FALSE)]

rol(sr, value) ==
  LET oldCarry == IF getFlag(sr, Carry) THEN 1 ELSE 0
      result == JsAnd(JsOr(JsShl(value, 1), oldCarry), 255)
  IN [v |-> result,
      sr |-> setFlag(setFlag(setFlag(sr, Carry, JsAnd(value, 128) # 0),
                             Zero, result = 0), Negative, JsAnd(result, 128) # 0)]

ror(sr, value) ==
  LET oldCarry == IF getFlag(sr, Carry) THEN 128 ELSE 0
      result == JsOr(JsShr(value, 1), oldCarry)
  IN [v |-> result,
      sr |-> setFlag(setFlag(setFlag(sr, Carry, JsAnd(value, 1) # 0),
                             Zero, result = 0), Negative, JsAnd(result, 128) # 0)]

\* populateInstructions: opcode -> <<operation, addressing mode, cycles>>.
\* LDAaddr marks the LDA forms whose execute stores the operand address.
instructions ==
  (0 :> <<"BRK", "imp", 7>>) @@ (6 :> <<"ASL", "zp", 5>>) @@ (8 :> <<"PHP", "imp", 3>>) @@
  (10 :> <<"ASLA", "acc", 2>>) @@ (14 :> <<"ASL", "abs", 6>>) @@ (16 :> <<"BPL", "rel", 2>>) @@
  (22 :> <<"ASL", "zpx", 6>>) @@ (24 :> <<"CLC", "imp", 2>>) @@ (30 :> <<"ASL", "abx", 7>>) @@
  (32 :> <<"JSR", "abs", 6>>) @@ (36 :> <<"BIT", "zp", 3>>) @@ (38 :> <<"ROL", "zp", 5>>) @@
  (40 :> <<"PLP", "imp", 4>>) @@ (42 :> <<"ROLA", "acc", 2>>) @@ (44 :> <<"BIT", "abs", 4>>) @@
  (46 :> <<"ROL", "abs", 6>>) @@ (48 :> <<"BMI", "rel", 2>>) @@ (54 :> <<"ROL", "zpx", 6>>) @@
  (56 :> <<"SEC", "imp", 2>>) @@ (62 :> <<"ROL", "abx", 7>>) @@ (64 :> <<"RTI", "imp", 6>>) @@
  (70 :> <<"LSR", "zp", 5>>) @@ (72 :> <<"PHA", "imp", 3>>) @@ (74 :> <<"LSRA", "acc", 2>>) @@
  (76 :> <<"JMP", "abs", 3>>) @@ (78 :> <<"LSR", "abs", 6>>) @@ (80 :> <<"BVC", "rel", 2>>) @@
  (86 :> <<"LSR", "zpx", 6>>) @@ (88 :> <<"CLI", "imp", 2>>) @@ (94 :> <<"LSR", "abx", 7>>) @@
  (96 :> <<"RTS", "imp", 6>>) @@ (97 :> <<"ADC", "inx", 6>>) @@ (101 :> <<"ADC", "zp", 3>>) @@
  (102 :> <<"ROR", "zp", 5>>) @@ (104 :> <<"PLA", "imp", 4>>) @@ (105 :> <<"ADC", "imm", 2>>) @@
  (106 :> <<"RORA", "acc", 2>>) @@ (108 :> <<"JMPI", "ind", 5>>) @@ (109 :> <<"ADC", "abs", 4>>) @@
  (110 :> <<"ROR", "abs", 6>>) @@ (112 :> <<"BVS", "rel", 2>>) @@ (113 :> <<"ADC", "iny", 5>>) @@
  (117 :> <<"ADC", "zpx", 4>>) @@ (118 :> <<"ROR", "zpx", 6>>) @@ (120 :> <<"SEI", "imp", 2>>) @@
  (121 :> <<"ADC", "aby", 4>>) @@ (125 :> <<"ADC", "abx", 4>>) @@ (126 :> <<"ROR", "abx", 7>>) @@
  (129 :> <<"STA", "inx", 6>>) @@ (132 :> <<"STY", "zp", 3>>) @@ (133 :> <<"STA", "zp", 3>>) @@
  (134 :> <<"STX", "zp", 3>>) @@ (136 :> <<"DEY", "imp", 2>>) @@ (138 :> <<"TXA", "imp", 2>>) @@
  (140 :> <<"STY", "abs", 4>>) @@ (141 :> <<"STA", "abs", 4>>) @@ (142 :> <<"STX", "abs", 4>>) @@
  (144 :> <<"BCC", "rel", 2>>) @@ (145 :> <<"STA", "iny", 6>>) @@ (148 :> <<"STY", "zpx", 4>>) @@
  (149 :> <<"STA", "zpx", 4>>) @@ (150 :> <<"STX", "zpy", 4>>) @@ (152 :> <<"TYA", "imp", 2>>) @@
  (153 :> <<"STA", "aby", 5>>) @@ (154 :> <<"TXS", "imp", 2>>) @@ (157 :> <<"STA", "abx", 5>>) @@
  (160 :> <<"LDY", "imm", 2>>) @@ (161 :> <<"LDAaddr", "inx", 6>>) @@
  (162 :> <<"LDX", "imm", 2>>) @@ (164 :> <<"LDY", "zp", 3>>) @@ (165 :> <<"LDA", "zp", 3>>) @@
  (166 :> <<"LDX", "zp", 3>>) @@ (168 :> <<"TAY", "imp", 2>>) @@ (169 :> <<"LDA", "imm", 2>>) @@
  (170 :> <<"TAX", "imp", 2>>) @@ (172 :> <<"LDY", "abs", 4>>) @@
  (173 :> <<"LDAaddr", "abs", 4>>) @@ (174 :> <<"LDX", "abs", 4>>) @@
  (176 :> <<"BCS", "rel", 2>>) @@ (177 :> <<"LDAaddr", "iny", 5>>) @@
  (180 :> <<"LDY", "zpx", 4>>) @@ (181 :> <<"LDA", "zpx", 4>>) @@ (182 :> <<"LDX", "zpy", 4>>) @@
  (184 :> <<"CLV", "imp", 2>>) @@ (185 :> <<"LDAaddr", "aby", 4>>) @@
  (186 :> <<"TSX", "imp", 2>>) @@ (188 :> <<"LDY", "abx", 4>>) @@
  (189 :> <<"LDAaddr", "abx", 4>>) @@ (190 :> <<"LDX", "aby", 4>>) @@
  (192 :> <<"CPY", "imm", 2>>) @@ (193 :> <<"CMP", "inx", 6>>) @@ (196 :> <<"CPY", "zp", 3>>) @@
  (197 :> <<"CMP", "zp", 3>>) @@ (198 :> <<"DEC", "zp", 5>>) @@ (200 :> <<"INY", "imp", 2>>) @@
  (201 :> <<"CMP", "imm", 2>>) @@ (202 :> <<"DEX", "imp", 2>>) @@ (204 :> <<"CPY", "abs", 4>>) @@
  (205 :> <<"CMP", "abs", 4>>) @@ (206 :> <<"DEC", "abs", 6>>) @@ (208 :> <<"BNE", "rel", 2>>) @@
  (209 :> <<"CMP", "iny", 5>>) @@ (213 :> <<"CMP", "zpx", 4>>) @@ (214 :> <<"DEC", "zpx", 6>>) @@
  (216 :> <<"CLD", "imp", 2>>) @@ (217 :> <<"CMP", "aby", 4>>) @@ (221 :> <<"CMP", "abx", 4>>) @@
  (222 :> <<"DEC", "abx", 7>>) @@ (224 :> <<"CPX", "imm", 2>>) @@ (225 :> <<"SBC", "inx", 6>>) @@
  (228 :> <<"CPX", "zp", 3>>) @@ (229 :> <<"SBC", "zp", 3>>) @@ (230 :> <<"INC", "zp", 5>>) @@
  (232 :> <<"INX", "imp", 2>>) @@ (233 :> <<"SBC", "imm", 2>>) @@ (234 :> <<"NOP", "imp", 2>>) @@
  (236 :> <<"CPX", "abs", 4>>) @@ (237 :> <<"SBC", "abs", 4>>) @@ (238 :> <<"INC", "abs", 6>>) @@
  (240 :> <<"BEQ", "rel", 2>>) @@ (241 :> <<"SBC", "iny", 5>>) @@ (245 :> <<"SBC", "zpx", 4>>) @@
  (246 :> <<"INC", "zpx", 6>>) @@ (248 :> <<"SED", "imp", 2>>) @@ (249 :> <<"SBC", "aby", 4>>) @@
  (253 :> <<"SBC", "abx", 4>>) @@ (254 :> <<"INC", "abx", 7>>)

pageCrossed(addr1, addr2) == (addr1 \div 256) # (addr2 \div 256)

branch_flatPenalty(s, taken) ==
  LET r  == Call("fetchByte", <<s>>)
      c  == r.s.cpu
      offset == ToInt32(r.v)
      signedOffset == IF offset >= 128 THEN offset - 256 ELSE offset
      pc == JsAnd(JsAdd(c.PC, signedOffset), 65535)
  IN IF ~taken THEN r.s
     ELSE SetCpu(r.s, [c EXCEPT !.PC = pc, !.cycles = @ + 1])

\* The eight conditional branches share one body.
branch(s, taken) ==
  LET r  == Call("fetchByte", <<s>>)
      c  == r.s.cpu
      offset == ToInt32(r.v)
      signedOffset == IF offset >= 128 THEN offset - 256 ELSE offset
      pc == JsAnd(JsAdd(c.PC, signedOffset), 65535)
  IN IF ~taken THEN r.s
     ELSE SetCpu(r.s, [c EXCEPT !.PC = pc,
                                !.cycles = @ + (IF pageCrossed(c.PC, pc) THEN 2 ELSE 1)])

incrementMemory(s, addr, delta) ==
  LET r == Call("BusRead", <<s, addr>>)
      value == JsAnd(JsAdd(r.v, delta), 255)
      w == Call("BusWrite", <<r.s, addr, value>>)
  IN SetCpu(w, [w.cpu EXCEPT !.SR = updateZeroNegativeFlags(@, value)])

\* Read-modify-write shift of a memory operand.
shiftMemory(s, mode, kind) ==
  LET a == Call("operand", <<s, mode>>)
      r == Call("BusRead", <<a.s, a.v>>)
      sh == CASE kind = "ASL" -> asl(r.s.cpu.SR, r.v)
              [] kind = "LSR" -> lsr(r.s.cpu.SR, r.v)
              [] kind = "ROL" -> rol(r.s.cpu.SR, r.v)
              [] kind = "ROR" -> ror(r.s.cpu.SR, r.v)
      s1 == SetCpu(r.s, [r.s.cpu EXCEPT !.SR = sh.sr])
  IN Call("BusWrite", <<s1, a.v, sh.v>>)

returnFromInterrupt_asPulled(s) ==
  LET sr == Call("pullByte", <<s>>)
      s1 == SetCpu(sr.s, [sr.s.cpu EXCEPT !.SR = sr.v])
      pc == Call("pullWord", <<s1>>)
  IN SetCpu(pc.s, [pc.s.cpu EXCEPT !.PC = pc.v])

returnFromInterrupt(s) ==
  LET sr == Call("pullByte", <<s>>)
      s1 == SetCpu(sr.s, [sr.s.cpu EXCEPT !.SR = JsOr(sr.v, Unused)])
      pc == Call("pullWord", <<s1>>)
  IN SetCpu(pc.s, [pc.s.cpu EXCEPT !.PC = pc.v])

BRK_pushPC(s) ==
  LET s1 == Call("pushWord", <<s, s.cpu.PC>>)
      s2 == Call("pushByte", <<s1, JsOr(s1.cpu.SR, Break)>>)
      s3 == SetCpu(s2, [s2.cpu EXCEPT !.SR = setFlag(@, InterruptDisable, TRUE)])
      v  == Call("readVector", <<s3, IRQ_VECTOR>>)
  IN SetCpu(v.s, [v.s.cpu EXCEPT !.PC = v.v])

\* Instruction 0x00
BRK(s) ==
  LET s1 == Call("pushWord", <<s, JsAdd(s.cpu.PC, 1)>>)
      s2 == Call("pushByte", <<s1, JsOr(s1.cpu.SR, Break)>>)
      s3 == SetCpu(s2, [s2.cpu EXCEPT !.SR = setFlag(@, InterruptDisable, TRUE)])
      v  == Call("readVector", <<s3, IRQ_VECTOR>>)
  IN SetCpu(v.s, [v.s.cpu EXCEPT !.PC = v.v])

\* instruction.execute(cpu) for the table entry <<op, mode, cycles>>
execute(s, op, mode) ==
  LET c == s.cpu
      ZN(v) == updateZeroNegativeFlags(c.SR, v)
  IN CASE op = "BRK" -> Call("BRK", <<s>>)
       [] op = "NOP" -> s
       [] op = "CLI" -> SetCpu(s, [c EXCEPT !.SR = setFlag(@, InterruptDisable, FALSE)])
       [] op = "SEI" -> SetCpu(s, [c EXCEPT !.SR = setFlag(@, InterruptDisable, TRUE)])
       [] op = "CLC" -> SetCpu(s, [c EXCEPT !.SR = setFlag(@, Carry, FALSE)])
       [] op = "SEC" -> SetCpu(s, [c EXCEPT !.SR = setFlag(@, Carry, TRUE)])
       [] op = "CLV" -> SetCpu(s, [c EXCEPT !.SR = setFlag(@, Overflow, FALSE)])
       [] op = "CLD" -> SetCpu(s, [c EXCEPT !.SR = setFlag(@, Decimal, FALSE)])
       [] op = "SED" -> SetCpu(s, [c EXCEPT !.SR = setFlag(@, Decimal, TRUE)])
       [] op = "LDA" -> LET r == Call("readOperand", <<s, mode>>)
                        IN SetCpu(r.s, [r.s.cpu EXCEPT !.A = r.v,
                                          !.SR = updateZeroNegativeFlags(@, r.v)])
       [] op = "LDAaddr" -> LET r == Call("operand", <<s, mode>>)
                            IN SetCpu(r.s, [r.s.cpu EXCEPT !.A = r.v,
                                              !.SR = updateZeroNegativeFlags(@, r.v)])
       [] op = "LDX" -> LET r == Call("readOperand", <<s, mode>>)
                        IN SetCpu(r.s, [r.s.cpu EXCEPT !.X = r.v,
                                          !.SR = updateZeroNegativeFlags(@, r.v)])
       [] op = "LDY" -> LET r == Call("readOperand", <<s, mode>>)
                        IN SetCpu(r.s, [r.s.cpu EXCEPT !.Y = r.v,
                                          !.SR = updateZeroNegativeFlags(@, r.v)])
       [] op = "STA" -> LET a == Call("operand", <<s, mode>>) IN Call("BusWrite", <<a.s, a.v, c.A>>)
       [] op = "STX" -> LET a == Call("operand", <<s, mode>>) IN Call("BusWrite", <<a.s, a.v, c.X>>)
       [] op = "STY" -> LET a == Call("operand", <<s, mode>>) IN Call("BusWrite", <<a.s, a.v, c.Y>>)
       [] op = "ADC" -> LET r == Call("readOperand", <<s, mode>>) IN SetCpu(r.s, add(r.s.cpu, r.v))
       [] op = "SBC" -> LET r == Call("readOperand", <<s, mode>>) IN SetCpu(r.s, subtract(r.s.cpu, r.v))
       [] op = "CMP" -> LET r == Call("readOperand", <<s, mode>>)
                        IN SetCpu(r.s, compare(r.s.cpu, c.A, r.v))
       [] op = "CPX" -> LET r == Call("readOperand", <<s, mode>>)
                        IN SetCpu(r.s, compare(r.s.cpu, c.X, r.v))
       [] op = "CPY" -> LET r == Call("readOperand", <<s, mode>>)
                        IN SetCpu(r.s, compare(r.s.cpu, c.Y, r.v))
       [] op = "BIT" -> LET r == Call("readOperand", <<s, mode>>) IN SetCpu(r.s, bit(r.s.cpu, r.v))
       [] op = "JMP" -> LET r == Call("operandAbsolute", <<s>>)
                        IN SetCpu(r.s, [r.s.cpu EXCEPT !.PC = r.v])
       [] op = "JMPI" -> LET a  == Call("fetchWord", <<s>>)
                             lo == Call("BusRead", <<a.s, a.v>>)
                             hi == Call("BusRead", <<lo.s, JsOr(JsAnd(a.v, 65280), JsAnd(JsAdd(a.v, 1), 255))>>)
                         IN SetCpu(hi.s, [hi.s.cpu EXCEPT !.PC = JsOr(JsShl(hi.v, 8), lo.v)])
       [] op = "JSR" -> LET r  == Call("operandAbsolute", <<s>>)
                            s1 == Call("pushWord", <<r.s, JsSub(r.s.cpu.PC, 1)>>)
                        IN SetCpu(s1, [s1.cpu EXCEPT !.PC = r.v])
       [] op = "RTS" -> LET r == Call("pullWord", <<s>>)
                        IN SetCpu(r.s, [r.s.cpu EXCEPT !.PC = JsAnd(JsAdd(r.v, 1), 65535)])
       [] op = "RTI" -> Call("returnFromInterrupt", <<s>>)
       [] op = "BEQ" -> Call("branch", <<s, getFlag(c.SR, Zero)>>)
       [] op = "BNE" -> Call("branch", <<s, ~getFlag(c.SR, Zero)>>)
       [] op = "BCS" -> Call("branch", <<s, getFlag(c.SR, Carry)>>)
       [] op = "BCC" -> Call("branch", <<s, ~getFlag(c.SR, Carry)>>)
       [] op = "BVS" -> Call("branch", <<s, getFlag(c.SR, Overflow)>>)
       [] op = "BVC" -> Call("branch", <<s, ~getFlag(c.SR, Overflow)>>)
       [] op = "BMI" -> Call("branch", <<s, getFlag(c.SR, Negative)>>)
       [] op = "BPL" -> Call("branch", <<s, ~getFlag(c.SR, Negative)>>)
       [] op = "PHA" -> Call("pushByte", <<s, c.A>>)
       [] op = "PHP" -> Call("pushByte", <<s, JsOr(JsOr(c.SR, Break), Unused)>>)
       [] op = "PLA" -> LET r == Call("pullByte", <<s>>)
                        IN SetCpu(r.s, [r.s.cpu EXCEPT !.A = r.v,
                                          !.SR = updateZeroNegativeFlags(@, r.v)])
       [] op = "PLP" -> LET r == Call("pullByte", <<s>>)
                        IN SetCpu(r.s, [r.s.cpu EXCEPT
                                          !.SR = setFlag(setFlag(r.v, Break, FALSE),
                                                         Unused, TRUE)])
       [] op = "TAX" -> SetCpu(s, [c EXCEPT !.X = c.A, !.SR = ZN(c.A)])
       [] op = "TAY" -> SetCpu(s, [c EXCEPT !.Y = c.A, !.SR = ZN(c.A)])
       [] op = "TXA" -> SetCpu(s, [c EXCEPT !.A = c.X, !.SR = ZN(c.X)])
       [] op = "TYA" -> SetCpu(s, [c EXCEPT !.A = c.Y, !.SR = ZN(c.Y)])
       [] op = "TSX" -> SetCpu(s, [c EXCEPT !.X = c.SP, !.SR = ZN(c.SP)])
       [] op = "TXS" -> SetCpu(s, [c EXCEPT !.SP = c.X])
       [] op = "INX" -> LET v == JsAnd(JsAdd(c.X, 1), 255)
                        IN SetCpu(s, [c EXCEPT !.X = v, !.SR = ZN(v)])
       [] op = "INY" -> LET v == JsAnd(JsAdd(c.Y, 1), 255)
                        IN SetCpu(s, [c EXCEPT !.Y = v, !.SR = ZN(v)])
       [] op = "DEX" -> LET v == JsAnd(JsSub(c.X, 1), 255)
                        IN SetCpu(s, [c EXCEPT !.X = v, !.SR = ZN(v)])
       [] op = "DEY" -> LET v == JsAnd(JsSub(c.Y, 1), 255)
                        IN SetCpu(s, [c EXCEPT !.Y = v, !.SR = ZN(v)])
       [] op = "INC" -> LET a == Call("operand", <<s, mode>>) IN Call("incrementMemory", <<a.s, a.v, 1>>)
       [] op = "DEC" -> LET a == Call("operand", <<s, mode>>) IN Call("incrementMemory", <<a.s, a.v, 0 - 1>>)
       [] op = "ASLA" -> LET sh == asl(c.SR, c.A)
                         IN SetCpu(s, [c EXCEPT !.A = sh.v, !.SR = sh.sr])
       [] op = "LSRA" -> LET sh == lsr(c.SR, c.A)
                         IN SetCpu(s, [c EXCEPT !.A = sh.v, !.SR = sh.sr])
       [] op = "ROLA" -> LET sh == rol(c.SR, c.A)
                         IN SetCpu(s, [c EXCEPT !.A = sh.v, !.SR = sh.sr])
       [] op = "RORA" -> LET sh == ror(c.SR, c.A)
                         IN SetCpu(s, [c EXCEPT !.A = sh.v, !.SR = sh.sr])
       [] op \in {"ASL", "LSR", "ROL", "ROR"} -> Call("shiftMemory", <<s, mode, op>>)

\* CPU fields before the constructor's reset()
CpuFields ==
  [A |-> 0, X |-> 0, Y |-> 0, PC |-> 0, SP |-> 0, SR |-> 0, cycles |-> 0,
   pendingNMI |-> FALSE, pendingIRQ |-> FALSE]

reset_keepLatches(s) ==
  LET s1 == SetCpu(s, [s.cpu EXCEPT !.A = 0, !.X = 0, !.Y = 0, !.SP = 253,
                                    !.SR = BitOr(InterruptDisable, Unused)])
      v == Call("readVector", <<s1, RESET_VECTOR>>)
  IN SetCpu(v.s, [v.s.cpu EXCEPT !.PC = v.v])

\* CPU.reset
reset(s) ==
  LET s1 == SetCpu(s, [s.cpu EXCEPT !.A = 0, !.X = 0, !.Y = 0, !.SP = 253,
                                    !.SR = BitOr(InterruptDisable, Unused),
                                    !.pendingNMI = FALSE, !.pendingIRQ = FALSE])
      v == Call("readVector", <<s1, RESET_VECTOR>>)
  IN SetCpu(v.s, [v.s.cpu EXCEPT !.PC = v.v])

triggerNMI(s) == [s EXCEPT !.cpu.pendingNMI = TRUE]

triggerIRQ(s) == [s EXCEPT !.cpu.pendingIRQ = TRUE]

handleNMI_pushBreak(s) ==
  LET s1 == Call("pushWord", <<s, s.cpu.PC>>)
      s2 == Call("pushByte", <<s1, setFlag(s1.cpu.SR, Break, TRUE)>>)
      s3 == SetCpu(s2, [s2.cpu EXCEPT !.SR = setFlag(@, InterruptDisable, TRUE)])
      v  == Call("readVector", <<s3, NMI_VECTOR>>)
  IN R(SetCpu(v.s, [v.s.cpu EXCEPT !.PC = v.v]), 7)

\* CPU.handleNMI: [s, v |-> cycles]
handleNMI(s) ==
  LET s1 == Call("pushWord", <<s, s.cpu.PC>>)
      s2 == Call("pushByte", <<s1, setFlag(s1.cpu.SR, Break, FALSE)>>)
      s3 == SetCpu(s2, [s2.cpu EXCEPT !.SR = setFlag(@, InterruptDisable, TRUE)])
      v  == Call("readVector", <<s3, NMI_VECTOR>>)
  IN R(SetCpu(v.s, [v.s.cpu EXCEPT !.PC = v.v]), 7)

\* CPU.handleIRQ: [s, v |-> cycles]
handleIRQ(s) ==
  LET s1 == Call("pushWord", <<s, s.cpu.PC>>)
      s2 == Call("pushByte", <<s1, setFlag(s1.cpu.SR, Break, FALSE)>>)
      s3 == SetCpu(s2, [s2.cpu EXCEPT !.SR = setFlag(@, InterruptDisable, TRUE)])
      v  == Call("readVector", <<s3, IRQ_VECTOR>>)
  IN R(SetCpu(v.s, [v.s.cpu EXCEPT !.PC = v.v]), 7)

handleInterrupts_ignoreI(s) ==
  IF s.cpu.pendingNMI
  THEN LET r == Call("handleNMI", <<s>>)
       IN [s |-> SetCpu(r.s, [r.s.cpu EXCEPT !.pendingNMI = FALSE]),
           v |-> r.v, serviced |-> "NMI"]
  ELSE IF s.cpu.pendingIRQ
  THEN LET r == Call("handleIRQ", <<s>>)
       IN [s |-> SetCpu(r.s, [r.s.cpu EXCEPT !.pendingIRQ = FALSE]),
           v |-> r.v, serviced |-> "IRQ"]
  ELSE [s |-> s, v |-> 0, serviced |-> "none"]

handleInterrupts_irqFirst(s) ==
  IF s.cpu.pendingIRQ /\ ~getFlag(s.cpu.SR, InterruptDisable)
  THEN LET r == Call("handleIRQ", <<s>>)
       IN [s |-> SetCpu(r.s, [r.s.cpu EXCEPT !.pendingIRQ = FALSE]),
           v |-> r.v, serviced |-> "IRQ"]
  ELSE IF s.cpu.pendingNMI
  THEN LET r == Call("handleNMI", <<s>>)
       IN [s |-> SetCpu(r.s, [r.s.cpu EXCEPT !.pendingNMI = FALSE]),
           v |-> r.v, serviced |-> "NMI"]
  ELSE [s |-> s, v |-> 0, serviced |-> "none"]

\* CPU.handleInterrupts: [s, v |-> cycles, serviced |-> handler that ran]
handleInterrupts(s) ==
  IF s.cpu.pendingNMI
  THEN LET r == Call("handleNMI", <<s>>)
       IN [s |-> SetCpu(r.s, [r.s.cpu EXCEPT !.pendingNMI = FALSE]),
           v |-> r.v, serviced |-> "NMI"]
  ELSE IF s.cpu.pendingIRQ /\ ~getFlag(s.cpu.SR, InterruptDisable)
  THEN LET r == Call("handleIRQ", <<s>>)
       IN [s |-> SetCpu(r.s, [r.s.cpu EXCEPT !.pendingIRQ = FALSE]),
           v |-> r.v, serviced |-> "IRQ"]
  ELSE [s |-> s, v |-> 0, serviced |-> "none"]

\* Outcome of a call on the machine: the machine afterwards, the value
\* returned, what was thrown, which interrupt handler ran and the opcode
\* fetched.
Outcome(s, ret, serviced, opcode) ==
  [s |-> [s EXCEPT !.fault = NoThrow], ret |-> ret, thrown |-> s.fault,
   serviced |-> serviced, opcode |-> opcode]

baseCycles_zero(opcode) == 0

baseCycles_plusOne(opcode) == instructions[opcode][3] + 1

\* instruction.cycles of the table entry
baseCycles(opcode) == instructions[opcode][3]

\* CPU.step
step(s) ==
  Once({
    IF ~OK(i.s) THEN Outcome(i.s, Undefined, i.serviced, Undefined)
    ELSE IF i.v > 0 THEN Outcome(i.s, i.v, i.serviced, Undefined)
    ELSE Once({
      LET opcode == f.v
      IN IF ~OK(f.s) THEN Outcome(f.s, Undefined, "none", Undefined)
         ELSE IF opcode = Undefined
         THEN Outcome([f.s EXCEPT !.fault = TypeError], Undefined, "none", opcode)
         ELSE IF opcode \notin DOMAIN instructions
         THEN Outcome([f.s EXCEPT !.fault = UnimplementedOpcode], Undefined,
                      "none", opcode)
         ELSE LET instruction == instructions[opcode]
              IN Once({
                   LET s1 == SetCpu(e, [e.cpu EXCEPT !.cycles = @ + baseCycles(opcode)])
                   IN IF ~OK(s1) THEN Outcome(s1, Undefined, "none", opcode)
                      ELSE Outcome(s1, s1.cpu.cycles, "none", opcode)
                   : e \in {Call("execute", <<[f.s EXCEPT !.cpu.cycles = 0],
                                    instruction[1], instruction[2]>>)}})
      : f \in {Call("fetchByte", <<i.s>>)}})
    : i \in {Call("handleInterrupts", <<s>>)}})

\* Dispatch of a method call to the method's definition.
Call(f, a) ==
  CASE f = "BusRead" -> BusRead(a[1], a[2])
    [] f = "fetchByte" -> fetchByte(a[1])
    [] f = "BusWrite" -> BusWrite(a[1], a[2], a[3])
    [] f = "readVRAM" -> readVRAM(a[1], a[2])
    [] f = "writeVRAM" -> writeVRAM(a[1], a[2], a[3])
    [] f = "readStatus" -> readStatus(a[1])
    [] f = "readOAMData" -> readOAMData(a[1])
    [] f = "readData" -> readData(a[1])
    [] f = "writeControl" -> writeControl(a[1], a[2])
    [] f = "writeMask" -> writeMask(a[1], a[2])
    [] f = "writeOAMAddress" -> writeOAMAddress(a[1], a[2])
    [] f = "writeOAMData" -> writeOAMData(a[1], a[2])
    [] f = "writeScroll" -> writeScroll(a[1], a[2])
    [] f = "writeAddress" -> writeAddress(a[1], a[2])
    [] f = "writeData" -> writeData(a[1], a[2])
    [] f = "MemoryReadDirect" -> MemoryReadDirect(a[1], a[2])
    [] f = "MemoryWriteDirect" -> MemoryWriteDirect(a[1], a[2], a[3])
    [] f = "MemoryReadPpu" -> MemoryReadPpu(a[1], a[2])
    [] f = "writePrg" -> writePrg(a[1], a[2], a[3])
    [] f = "MemoryWritePpu" -> MemoryWritePpu(a[1], a[2], a[3])
    [] f = "pushByte" -> pushByte(a[1], a[2])
    [] f = "pushWord" -> pushWord(a[1], a[2])
    [] f = "pullByte" -> pullByte(a[1])
    [] f = "pullWord" -> pullWord(a[1])
    [] f = "fetchWord" -> fetchWord(a[1])
    [] f = "readVector" -> readVector(a[1], a[2])
    [] f = "operandImmediate" -> operandImmediate(a[1])
    [] f = "operandZeroPage" -> operandZeroPage(a[1])
    [] f = "operandZeroPageX" -> operandZeroPageX(a[1])
    [] f = "operandZeroPageY" -> operandZeroPageY(a[1])
    [] f = "operandAbsolute" -> operandAbsolute(a[1])
    [] f = "operandAbsoluteX" -> operandAbsoluteX(a[1])
    [] f = "operandAbsoluteY" -> operandAbsoluteY(a[1])
    [] f = "operandIndirectX" -> operandIndirectX(a[1])
    [] f = "operandIndirectY" -> operandIndirectY(a[1])
    [] f = "operand" -> operand(a[1], a[2])
    [] f = "readOperand" -> readOperand(a[1], a[2])
    [] f = "branch" -> branch(a[1], a[2])
    [] f = "incrementMemory" -> incrementMemory(a[1], a[2], a[3])
    [] f = "shiftMemory" -> shiftMemory(a[1], a[2], a[3])
    [] f = "returnFromInterrupt" -> returnFromInterrupt(a[1])
    [] f = "BRK" -> BRK(a[1])
    [] f = "execute" -> execute(a[1], a[2], a[3])
    [] f = "reset" -> reset(a[1])
    [] f = "handleNMI" -> handleNMI(a[1])
    [] f = "handleIRQ" -> handleIRQ(a[1])
    [] f = "handleInterrupts" -> handleInterrupts(a[1])
    [] f = "step" -> step(a[1])

\* ------------------------------------------------------------ construction
\* The CPU unit tests build: new Memory(); loadCartridge(cart); new CPU(memory).
\* The console builds: Cartridge, Memory(cartridge), PPU(memory), setPpu,
\* CPU(memory); the CPU constructor ends with reset().
Machine(rom, wiring) ==
  Call("reset", <<[cpu |-> CpuFields, ram |-> EmptyArray, apu |-> EmptyArray,
         prgRam |-> EmptyArray, chrRam |-> EmptyArray, ppu |-> PpuReset,
         wiring |-> wiring, rom |-> rom, fault |-> NoThrow]>>)

\* Configurations whose construction does not throw.
Constructible ==
  {cfg \in Roms \X {WiringLoadCartridge, WiringSetPpu} :
     OK(Machine(cfg[1], cfg[2]))}

\* ------------------------------------------------------------------- state
VARIABLES
  m,      \* the machine: CPU, RAM, APU/IO bytes, cartridge RAM, PPU
  h,      \* what the host last did to the CPU, and the machine before it
  clock,  \* the frame driver in use and the position of its loop
  g,      \* counts kept since the current frame-driver call began
  probe   \* one Cartridge.readPrg call and its outcome

vars == <<m, h, clock, g, probe>>

NoOutcome == [ret |-> 0, thrown |-> NoThrow, serviced |-> "none", opcode |-> Undefined]

HInit(s) ==
  [op |-> "construct", prevOp |-> "construct", pre |-> s, pre2 |-> s.cpu,
   out |-> NoOutcome, prevOut |-> NoOutcome,
   steps |-> 0, triggers |-> 0, resets |-> 0,
   nmiTriggers |-> 0, nmiServiced |-> 0]

\* h after the host performed op on machine `before` with outcome out
HNext(op, out) ==
  [h EXCEPT !.op = op, !.prevOp = h.op, !.pre = m, !.pre2 = h.pre.cpu,
            !.out = out, !.prevOut = h.out]

ClockIdle == [driver |-> "none", running |-> FALSE, calls |-> 0, i |-> 0,
              cpuCycles |-> 0, masterCycles |-> 0, ppuCycles |-> 0,
              thrown |-> NoThrow]

GInit == [ppuSteps |-> 0, cpuCycles |-> 0, steps |-> 0, stepped |-> FALSE,
          frameAtCall |-> 0, frameBeforeLastStep |-> 0,
          nmiLatched |-> 0, nmiServiced |-> 0, enableHeld |-> TRUE,
          ret |-> 0, thrown |-> NoThrow]

NoProbe == [rom |-> 1, address |-> 0, v |-> 0, thrown |-> NoThrow, done |-> FALSE]

\* ------------------------------------------------- CPU driven by its host
\* The host of the CPU unit tests: construct, then any sequence of step(),
\* triggerNMI(), triggerIRQ() and reset().
InitCpu ==
  /\ \E cfg \in Constructible : m = Machine(cfg[1], cfg[2])
  /\ h = HInit(m)
  /\ clock = ClockIdle
  /\ g = GInit
  /\ probe = NoProbe

CpuStep ==
  /\ h.steps < MaxSteps
  /\ \E r \in {Call("step", <<m>>)} :
        /\ m' = r.s
        /\ h' = [HNext("step", [ret |-> r.ret, thrown |-> r.thrown,
                                serviced |-> r.serviced, opcode |-> r.opcode])
                   EXCEPT !.steps = @ + 1,
                          !.nmiServiced = @ + (IF r.serviced = "NMI" THEN 1 ELSE 0)]
  /\ UNCHANGED <<clock, g, probe>>

TriggerNMI ==
  /\ h.triggers < MaxTriggers
  /\ m' = triggerNMI(m)
  /\ h' = [HNext("triggerNMI", NoOutcome) EXCEPT !.triggers = @ + 1,
                                               !.nmiTriggers = @ + 1]
  /\ UNCHANGED <<clock, g, probe>>

TriggerIRQ ==
  /\ h.triggers < MaxTriggers
  /\ m' = triggerIRQ(m)
  /\ h' = [HNext("triggerIRQ", NoOutcome) EXCEPT !.triggers = @ + 1]
  /\ UNCHANGED <<clock, g, probe>>

CpuReset ==
  /\ h.resets < MaxResets
  /\ LET s == Call("reset", <<m>>)
     IN /\ m' = [s EXCEPT !.fault = NoThrow]
        /\ h' = [HNext("reset", [NoOutcome EXCEPT !.thrown = s.fault])
                   EXCEPT !.resets = @ + 1]
  /\ UNCHANGED <<clock, g, probe>>

NextCpu == CpuStep \/ TriggerNMI \/ TriggerIRQ \/ CpuReset

SpecCpu == InitCpu /\ [][NextCpu]_vars

\* ------------------------------------------------------ properties: CPU
\* Little-endian word the bus returns at address a, a + 1
WordAt(s, a) == ToInt32(Call("BusRead", <<s, a>>).v) + 256 * ToInt32(Call("BusRead", <<s, a + 1>>).v)

\* Byte on the stack page at stack pointer sp
StackByte(s, sp) == ArrayGet(s.ram, 256 + (sp % 256))

LastWasStep == h.op = "step"

\* The interrupt frame of the last step: PC high, PC low, then P with B
\* clear and U set, pushed from the stack pointer before the step; I set;
\* PC loaded from the vector; 7 cycles; nothing else in the CPU changed.
Serviced(vector) ==
  LET c0 == h.pre.cpu
      c  == m.cpu
  IN /\ h.out.ret = 7
     /\ h.out.thrown = NoThrow
     /\ h.out.opcode = Undefined
     /\ StackByte(m, c0.SP) = c0.PC \div 256
     /\ StackByte(m, c0.SP - 1) = c0.PC % 256
     /\ StackByte(m, c0.SP - 2) = setFlag(setFlag(c0.SR, Break, FALSE), Unused, TRUE)
     /\ c.SP = (c0.SP - 3) % 256
     /\ c.SR = setFlag(c0.SR, InterruptDisable, TRUE)
     /\ c.PC = WordAt(h.pre, vector)
     /\ c.A = c0.A /\ c.X = c0.X /\ c.Y = c0.Y

C7_NmiService ==
  /\ (LastWasStep /\ h.pre.cpu.pendingNMI) =>
       /\ h.out.serviced = "NMI"
       /\ Serviced(NMI_VECTOR)
       /\ ~m.cpu.pendingNMI
       /\ m.cpu.pendingIRQ = h.pre.cpu.pendingIRQ
  /\ (LastWasStep /\ h.prevOp = "step" /\ h.prevOut.serviced = "NMI") =>
       /\ h.out.serviced = "none"
       /\ h.pre.cpu.PC = WordAt(h.pre, NMI_VECTOR)
       /\ h.out.opcode = Call("BusRead", <<h.pre, h.pre.cpu.PC>>).v
  /\ h.nmiServiced <= h.nmiTriggers

\* An NMI was serviced while I was set and the step after it has run.
C7_Witness ==
  /\ LastWasStep /\ h.prevOp = "step" /\ h.prevOut.serviced = "NMI"
  /\ getFlag(h.pre2.SR, InterruptDisable)
  /\ h.out.serviced = "none"

\* C8 as stated: with an IRQ pending and I set the next step executes the
\* normal instruction and the IRQ stays pending; with I clear the step
\* services it; it is never serviced while I is set.
C8_AsStated ==
  /\ (LastWasStep /\ h.pre.cpu.pendingIRQ /\ getFlag(h.pre.cpu.SR, InterruptDisable)) =>
       /\ h.out.serviced = "none"
       /\ m.cpu.pendingIRQ
       /\ [m EXCEPT !.cpu.pendingIRQ = FALSE]
            = Call("step", <<[h.pre EXCEPT !.cpu.pendingIRQ = FALSE]>>).s
  /\ (LastWasStep /\ h.pre.cpu.pendingIRQ /\ ~getFlag(h.pre.cpu.SR, InterruptDisable)) =>
       /\ h.out.serviced = "IRQ"
       /\ Serviced(IRQ_VECTOR)
       /\ ~m.cpu.pendingIRQ
  /\ (LastWasStep /\ h.out.serviced = "IRQ") =>
       ~getFlag(h.pre.cpu.SR, InterruptDisable)

\* C8, amended: the same, at instruction boundaries where no NMI is
\* pending.  With an IRQ pending and I set the step is exactly the step
\* made without the IRQ (the normal instruction; no interrupt frame is
\* pushed) and the IRQ stays pending; at the first boundary with I clear
\* the IRQ is serviced: PC and P with B clear pushed, I set, PC from
\* $FFFE/$FFFF, 7 cycles; an IRQ is never serviced while I is set.
C8_IrqMasked ==
  /\ (LastWasStep /\ h.pre.cpu.pendingIRQ /\ ~h.pre.cpu.pendingNMI
        /\ getFlag(h.pre.cpu.SR, InterruptDisable)) =>
       /\ h.out.serviced = "none"
       /\ m.cpu.pendingIRQ
       /\ [m EXCEPT !.cpu.pendingIRQ = FALSE]
            = Call("step", <<[h.pre EXCEPT !.cpu.pendingIRQ = FALSE]>>).s
  /\ (LastWasStep /\ h.pre.cpu.pendingIRQ /\ ~h.pre.cpu.pendingNMI
        /\ ~getFlag(h.pre.cpu.SR, InterruptDisable)) =>
       /\ h.out.serviced = "IRQ"
       /\ Serviced(IRQ_VECTOR)
       /\ ~m.cpu.pendingIRQ
  /\ (LastWasStep /\ h.out.serviced = "IRQ") =>
       ~getFlag(h.pre.cpu.SR, InterruptDisable)

\* An IRQ stayed pending over a step made with I set and was serviced by
\* the next step.
C8_Witness ==
  /\ LastWasStep /\ h.prevOp = "step"
  /\ h.pre2.pendingIRQ /\ ~h.pre2.pendingNMI /\ getFlag(h.pre2.SR, InterruptDisable)
  /\ h.prevOut.serviced = "none"
  /\ h.out.serviced = "IRQ"

\* C9: with an NMI and an IRQ both pending and I clear, the step services
\* the NMI alone (one frame pushed, PC from the NMI vector, 7 cycles) and
\* the IRQ is still pending afterwards.
C9_NmiBeforeIrq ==
  (LastWasStep /\ h.pre.cpu.pendingNMI /\ h.pre.cpu.pendingIRQ
     /\ ~getFlag(h.pre.cpu.SR, InterruptDisable)) =>
    /\ h.out.serviced = "NMI"
    /\ Serviced(NMI_VECTOR)
    /\ m.cpu.pendingIRQ
    /\ ~m.cpu.pendingNMI

\* A step has run with both latches set and I clear.
C9_Witness ==
  /\ LastWasStep /\ h.pre.cpu.pendingNMI /\ h.pre.cpu.pendingIRQ
  /\ ~getFlag(h.pre.cpu.SR, InterruptDisable)
  /\ h.out.ret = 7

\* C10: servicing an NMI or an IRQ and then executing RTI as the first
\* handler instruction restores PC, SP and the whole status register to
\* their values before the interrupt.
C10_RoundTrip ==
  (LastWasStep /\ h.prevOp = "step" /\ h.prevOut.serviced \in {"NMI", "IRQ"}
     /\ h.out.opcode = 64) =>
    /\ m.cpu.PC = h.pre2.PC
    /\ m.cpu.SP = h.pre2.SP
    /\ m.cpu.SR = h.pre2.SR

\* ------------------------------------------------------------ frame drivers
MASTER_CLOCK_HZ == 21477272
CPU_DIVIDER == 12
PPU_DIVIDER == 4
FPS == 60
\* Math.floor((MASTER_CLOCK_HZ / CPU_DIVIDER) / FPS)
CPU_CYCLES_PER_FRAME == MASTER_CLOCK_HZ \div (CPU_DIVIDER * FPS)

\* Loop count of NesConsole.runFrame
StepsPerRunFrame == 29780

\* Number of times n PPU steps from p take the "nmiOccurred = 1" branch.
RECURSIVE NmiEdges(_, _)
NmiEdges(p, n) ==
  IF n <= 0 THEN 0
  ELSE (IF p.scanline = 241 /\ p.cycle = 1 /\ p.nmiEnabled # 0 THEN 1 ELSE 0)
       + Once({NmiEdges(q, n - 1) : q \in {PpuStep(p)}})

\* Clock is given a CPU built over the loadCartridge() Memory; NesConsole
\* builds its own machine over the setPpu() Memory.
DriverConfigs ==
  {d \in {"Clock", "NesConsole"} \X Roms :
     OK(Machine(d[2], IF d[1] = "Clock" THEN WiringLoadCartridge ELSE WiringSetPpu))}

InitClock ==
  /\ \E d \in DriverConfigs :
       /\ m = Machine(d[2], IF d[1] = "Clock" THEN WiringLoadCartridge ELSE WiringSetPpu)
       /\ clock = [ClockIdle EXCEPT !.driver = d[1]]
  /\ h = HInit(m)
  /\ g = GInit
  /\ probe = NoProbe

\* Counts for a call that begins now.
GBegin ==
  [g EXCEPT !.ppuSteps = 0, !.cpuCycles = 0, !.steps = 0, !.stepped = FALSE,
            !.frameAtCall = m.ppu.frame, !.frameBeforeLastStep = m.ppu.frame]

\* Counts after a CPU step with outcome r followed by n PPU steps.
GStep(r, n) ==
  [g EXCEPT !.ppuSteps = @ + n,
            !.cpuCycles = @ + (IF r.thrown = NoThrow THEN r.ret ELSE 0),
            !.steps = @ + 1,
            !.stepped = TRUE,
            !.frameBeforeLastStep = m.ppu.frame,
            !.nmiLatched = @ + NmiEdges(r.s.ppu, n),
            !.nmiServiced = @ + (IF r.serviced = "NMI" THEN 1 ELSE 0),
            !.enableHeld = @ /\ r.s.ppu.nmiEnabled = 1,
            !.ret = r.ret, !.thrown = r.thrown]

\* Clock.stepFrame, entry: the three counters are reset.
StepFrameBegin ==
  /\ clock.driver = "Clock" /\ ~clock.running /\ clock.calls < MaxCalls
  /\ clock' = [clock EXCEPT !.running = TRUE, !.thrown = NoThrow,
                            !.masterCycles = 0, !.cpuCycles = 0, !.ppuCycles = 0]
  /\ g' = GBegin
  /\ UNCHANGED <<m, h, probe>>

\* Clock.stepFrame is inside its while loop and the loop test holds.
StepFrameLoops ==
  /\ clock.driver = "Clock" /\ clock.running
  /\ clock.cpuCycles < CPU_CYCLES_PER_FRAME

\* Clock.stepFrame, one pass of the while loop; the call returns
\* ppu.renderFrame() when the loop test fails, and ends at once when
\* cpu.step() throws.
StepFrameIterate ==
  /\ StepFrameLoops
  /\ \E r \in {Call("step", <<m>>)} :
        IF r.thrown # NoThrow
        THEN /\ m' = r.s
             /\ clock' = [clock EXCEPT !.running = FALSE, !.thrown = r.thrown,
                                       !.calls = @ + 1]
             /\ g' = GStep(r, 0)
        ELSE LET cpuInstructionCycles == r.ret
                 cpuCycles == clock.cpuCycles + cpuInstructionCycles
                 masterCyclesForCPU == cpuInstructionCycles * CPU_DIVIDER
                 ppuCyclesToRun == masterCyclesForCPU \div PPU_DIVIDER
                 done == ~(cpuCycles < CPU_CYCLES_PER_FRAME)
             IN /\ m' = [r.s EXCEPT !.ppu = PpuSteps(@, ppuCyclesToRun)]
                /\ clock' = [clock EXCEPT
                               !.cpuCycles = cpuCycles,
                               !.masterCycles = @ + masterCyclesForCPU,
                               !.ppuCycles = @ + ppuCyclesToRun,
                               !.running = ~done,
                               !.calls = @ + (IF done THEN 1 ELSE 0)]
                /\ g' = GStep(r, ppuCyclesToRun)
  /\ UNCHANGED <<h, probe>>

\* NesConsole.runFrame, entry
RunFrameBegin ==
  /\ clock.driver = "NesConsole" /\ ~clock.running /\ clock.calls < MaxCalls
  /\ clock' = [clock EXCEPT !.running = TRUE, !.thrown = NoThrow, !.i = 0]
  /\ g' = GBegin
  /\ UNCHANGED <<m, h, probe>>

\* NesConsole.runFrame is inside its for loop and the loop test holds.
RunFrameLoops ==
  /\ clock.driver = "NesConsole" /\ clock.running
  /\ clock.i < StepsPerRunFrame

\* NesConsole.runFrame, one pass of the for loop: cpu.step(), three
\* ppu.step(), then checkNMI / triggerNMI.
RunFrameIterate ==
  /\ RunFrameLoops
  /\ \E r \in {Call("step", <<m>>)} :
        IF r.thrown # NoThrow
        THEN /\ m' = r.s
             /\ clock' = [clock EXCEPT !.running = FALSE, !.thrown = r.thrown,
                                       !.calls = @ + 1]
             /\ g' = GStep(r, 0)
        ELSE LET c == checkNMI(PpuSteps(r.s.ppu, 3))
                 s1 == [r.s EXCEPT !.ppu = c.p]
                 done == ~(clock.i + 1 < StepsPerRunFrame)
             IN /\ m' = IF c.v # 0 THEN triggerNMI(s1) ELSE s1
                /\ clock' = [clock EXCEPT !.i = @ + 1,
                                          !.running = ~done,
                                          !.calls = @ + (IF done THEN 1 ELSE 0)]
                /\ g' = GStep(r, 3)
  /\ UNCHANGED <<h, probe>>

NextClock == StepFrameBegin \/ StepFrameIterate \/ RunFrameBegin \/ RunFrameIterate

SpecClock == InitClock /\ [][NextClock]_vars


\* ------------------------------------------------ properties: frame drivers
\* C1: during a frame-driver call, after every completed CPU step the PPU
\* steps run since the call began number exactly three times the CPU
\* cycles that step() has returned since the call began.
C1_ThreeDotsPerCycle ==
  g.stepped => g.ppuSteps = 3 * g.cpuCycles

\* C2: with NMI-enable held set, when the N-th frame-driver call has
\* returned the CPU has serviced exactly N NMIs, and no edge latched by
\* the PPU is left unserviced beyond the one just latched.
C2_NmiPerFrame ==
  /\ (~clock.running /\ clock.thrown = NoThrow /\ g.enableHeld) =>
       g.nmiServiced = clock.calls
  /\ g.enableHeld => g.nmiLatched - g.nmiServiced \in {0, 1}

\* C3: a frame-driver call returns when the PPU frame counter has advanced
\* by exactly one since the call began: the counter is one higher at
\* return, and it was still at its starting value before the last CPU
\* step of the call.
C3_OneFramePerCall ==
  (~clock.running /\ clock.calls > 0 /\ clock.thrown = NoThrow) =>
    /\ m.ppu.frame = g.frameAtCall + 1
    /\ g.frameBeforeLastStep = g.frameAtCall

\* Most CPU steps one call of the driver in use can make if every step
\* returns at least one cycle.
StepLimit ==
  IF clock.driver = "Clock" THEN CPU_CYCLES_PER_FRAME ELSE StepsPerRunFrame

PrgSpace == 32768 .. 65535

\* A host builds a Cartridge from a ROM image and calls readPrg once.
InitCart ==
  /\ m = Machine(2, WiringLoadCartridge)
  /\ h = HInit(m)
  /\ clock = ClockIdle
  /\ g = GInit
  /\ probe = NoProbe

ReadPrg ==
  /\ ~probe.done
  /\ \E rom \in Roms, address \in PrgSpace :
       \E r \in {readPrg(rom, address)} :
         probe' = [rom |-> rom, address |-> address, v |-> r.v,
                   thrown |-> r.thrown, done |-> TRUE]
  /\ UNCHANGED <<m, h, clock, g>>

NextCart == ReadPrg

SpecCart == InitCart /\ [][NextCart]_vars

\* Byte at an offset of the PRG area of a ROM image (bank 0 then bank 1)
PrgByte(rom, off) ==
  IF off \in DOMAIN RomImages[rom].code THEN RomImages[rom].code[off]
  ELSE RomImages[rom].fill

\* C6: for every address a in $8000..$FFFF readPrg returns byte
\* (a - $8000) mod $4000 of the bank of a one-bank cartridge, and byte
\* a - $8000 of bank 0 followed by bank 1 of a two-bank cartridge.
C6_ReadPrg ==
  probe.done =>
    /\ probe.thrown = NoThrow
    /\ probe.v = IF numPrgBanks(probe.rom) = 1
                 THEN PrgByte(probe.rom, (probe.address - 32768) % PRG_BANK_SIZE)
                 ELSE PrgByte(probe.rom, probe.address - 32768)

\* ------------------------------------------- properties: CPU instructions
\* The last host call was a step that executed the instruction with this
\* opcode (no interrupt was serviced, nothing was thrown).
Executed(opcode) ==
  /\ LastWasStep /\ h.out.serviced = "none" /\ h.out.thrown = NoThrow
  /\ h.out.opcode = opcode

\* C11: RTI pulls P then PC (low byte first) and returns 6; afterwards U is
\* set, the B flag is what it was before the instruction (the B bit of the
\* pulled byte is ignored) and every other flag equals the pulled byte.
C11_Rti ==
  Executed(64) =>
    LET c0 == h.pre.cpu
        p  == StackByte(h.pre, c0.SP + 1)
    IN /\ h.out.ret = 6
       /\ m.cpu.SR = setFlag(setFlag(p, Unused, TRUE), Break, getFlag(c0.SR, Break))
       /\ m.cpu.PC = StackByte(h.pre, c0.SP + 2) + 256 * StackByte(h.pre, c0.SP + 3)
       /\ m.cpu.SP = (c0.SP + 3) % 256

\* ------------------------------------------- one instruction at a time
\* The host of the CPU unit tests' instruction cases: construct over a ROM,
\* write a few program bytes with memory.write, assign the public register
\* fields, optionally latch an interrupt, then call step() once.
BranchOpcodes == {16, 48, 80, 112, 144, 176, 208, 240}

\* What the host arranges: program counter p, the bytes written at p, p+1
\* and p+2, the registers, the byte st written where the next pull reads,
\* the cycle count left by an earlier step and the interrupt it latches.
\* Every status byte has U set, as reset leaves it.
OpCases ==
  [p : {16}, o : 0 .. 255, b1 : {5, 128}, b2 : {2}, sr : {36, 231},
   a : {129}, x : {1}, sp : {253}, st : {0}, cyc : {0}, t : {"none"}]
  \cup
  [p : {16, 240, 65534, 65535}, o : BranchOpcodes \cup {0},
   b1 : {0, 5, 32, 128, 251}, b2 : {2}, sr : {36, 231, 32},
   a : {129}, x : {1}, sp : {0, 1, 2, 253, 255}, st : {0}, cyc : {0, 7},
   t : {"none"}]
  \cup
  [p : {16, 65535}, o : {0, 2, 8, 40, 64, 234}, b1 : {5}, b2 : {2},
   sr : {32, 36, 231}, a : {129}, x : {1}, sp : {1, 253}, st : {0, 223},
   cyc : {0}, t : {"none", "NMI", "IRQ"}]

InitOp ==
  /\ \E rom \in VectorRoms : m = Machine(rom, WiringLoadCartridge)
  /\ h = HInit(m)
  /\ clock = ClockIdle
  /\ g = GInit
  /\ probe = NoProbe

Arrange ==
  /\ h.op = "construct"
  /\ \E k \in OpCases :
       LET s1 == Call("BusWrite", <<m, k.p, k.o>>)
           s2 == Call("BusWrite", <<s1, k.p + 1, k.b1>>)
           s3 == Call("BusWrite", <<Call("BusWrite", <<s2, k.p + 2, k.b2>>),
                                    256 + ((k.sp + 1) % 256), k.st>>)
           s4 == SetCpu(s3, [s3.cpu EXCEPT !.PC = k.p, !.SR = k.sr, !.A = k.a,
                                           !.X = k.x, !.Y = k.x, !.SP = k.sp,
                                           !.cycles = k.cyc])
       IN /\ m' = (IF k.t = "NMI" THEN triggerNMI(s4)
                   ELSE IF k.t = "IRQ" THEN triggerIRQ(s4) ELSE s4)
          /\ h' = [HNext("arrange", NoOutcome)
                     EXCEPT !.nmiTriggers = @ + (IF k.t = "NMI" THEN 1 ELSE 0)]
  /\ UNCHANGED <<clock, g, probe>>

OpStep ==
  /\ h.op = "arrange"
  /\ CpuStep

NextOp == Arrange \/ OpStep

SpecOp == InitOp /\ [][NextOp]_vars

\* C12: BRK at address p pushes the word (p+2) mod 0x10000 high byte first,
\* then P with B and U set, sets I, loads PC from $FFFE/$FFFF and returns 7,
\* for every p (including $FFFE and $FFFF) and every SP (the stack wraps).
C12_Brk ==
  Executed(0) =>
    LET c0  == h.pre.cpu
        ret == (c0.PC + 2) % 65536
    IN /\ h.out.ret = 7
       /\ StackByte(m, c0.SP) = ret \div 256
       /\ StackByte(m, c0.SP - 1) = ret % 256
       /\ StackByte(m, c0.SP - 2) = BitOr(c0.SR, Break + Unused)
       /\ m.cpu.SP = (c0.SP - 3) % 256
       /\ getFlag(m.cpu.SR, InterruptDisable)
       /\ m.cpu.PC = WordAt(h.pre, IRQ_VECTOR)

\* BRK fetched from $FFFF with SP = 1: the return address and the stack
\* pointer both wrap.
C12_Witness ==
  /\ Executed(0)
  /\ h.pre.cpu.PC = 65535
  /\ h.pre.cpu.SP = 1
  /\ m.cpu.SP = 254

\* The condition each branch opcode tests, on the status byte sr.
BranchCondition(opcode, sr) ==
  CASE opcode = 16  -> ~getFlag(sr, Negative)
    [] opcode = 48  -> getFlag(sr, Negative)
    [] opcode = 80  -> ~getFlag(sr, Overflow)
    [] opcode = 112 -> getFlag(sr, Overflow)
    [] opcode = 144 -> ~getFlag(sr, Carry)
    [] opcode = 176 -> getFlag(sr, Carry)
    [] opcode = 208 -> ~getFlag(sr, Zero)
    [] opcode = 240 -> getFlag(sr, Zero)

\* The byte the bus holds at address a (a taken modulo 0x10000).
ByteAt(s, a) == ToInt32(Call("BusRead", <<s, a>>).v)

\* C13: a branch opcode at p with offset byte o: condition false, step
\* returns 2 and PC = p+2; condition true, PC = (p+2+signed(o)) mod 0x10000
\* and step returns 3 when the target is on the page of p+2, else 4; whatever
\* cycle count the earlier steps left (addresses taken modulo 0x10000).
C13_Branch ==
  \A opcode \in BranchOpcodes :
    Executed(opcode) =>
      LET c0     == h.pre.cpu
          o      == ByteAt(h.pre, c0.PC + 1)
          signed == IF o >= 128 THEN o - 256 ELSE o
          next   == (c0.PC + 2) % 65536
          target == (next + signed) % 65536
      IN IF ~BranchCondition(opcode, c0.SR)
         THEN h.out.ret = 2 /\ m.cpu.PC = next
         ELSE /\ m.cpu.PC = target
              /\ h.out.ret = (IF target \div 256 = next \div 256 THEN 3 ELSE 4)

\* BNE fetched from $FFFF with offset -5 after a step that left 7 cycles:
\* taken, to $FFFC, across a page.
C13_Witness ==
  /\ Executed(208)
  /\ h.pre.cpu.PC = 65535
  /\ h.pre.cpu.cycles = 7
  /\ m.cpu.PC = 65532
  /\ h.out.ret = 4

\* The base cycle count of every official 6502 opcode (the documented table:
\* no page-crossing or branch penalties included).
OfficialCycles ==
  (0 :> 7) @@ (1 :> 6) @@ (5 :> 3) @@ (6 :> 5) @@ (8 :> 3) @@ (9 :> 2) @@
  (10 :> 2) @@ (13 :> 4) @@ (14 :> 6) @@ (16 :> 2) @@ (17 :> 5) @@
  (21 :> 4) @@ (22 :> 6) @@ (24 :> 2) @@ (25 :> 4) @@ (29 :> 4) @@
  (30 :> 7) @@ (32 :> 6) @@ (33 :> 6) @@ (36 :> 3) @@ (37 :> 3) @@
  (38 :> 5) @@ (40 :> 4) @@ (41 :> 2) @@ (42 :> 2) @@ (44 :> 4) @@
  (45 :> 4) @@ (46 :> 6) @@ (48 :> 2) @@ (49 :> 5) @@ (53 :> 4) @@
  (54 :> 6) @@ (56 :> 2) @@ (57 :> 4) @@ (61 :> 4) @@ (62 :> 7) @@
  (64 :> 6) @@ (65 :> 6) @@ (69 :> 3) @@ (70 :> 5) @@ (72 :> 3) @@
  (73 :> 2) @@ (74 :> 2) @@ (76 :> 3) @@ (77 :> 4) @@ (78 :> 6) @@
  (80 :> 2) @@ (81 :> 5) @@ (85 :> 4) @@ (86 :> 6) @@ (88 :> 2) @@
  (89 :> 4) @@ (93 :> 4) @@ (94 :> 7) @@ (96 :> 6) @@ (97 :> 6) @@
  (101 :> 3) @@ (102 :> 5) @@ (104 :> 4) @@ (105 :> 2) @@ (106 :> 2) @@
  (108 :> 5) @@ (109 :> 4) @@ (110 :> 6) @@ (112 :> 2) @@ (113 :> 5) @@
  (117 :> 4) @@ (118 :> 6) @@ (120 :> 2) @@ (121 :> 4) @@ (125 :> 4) @@
  (126 :> 7) @@ (129 :> 6) @@ (132 :> 3) @@ (133 :> 3) @@ (134 :> 3) @@
  (136 :> 2) @@ (138 :> 2) @@ (140 :> 4) @@ (141 :> 4) @@ (142 :> 4) @@
  (144 :> 2) @@ (145 :> 6) @@ (148 :> 4) @@ (149 :> 4) @@ (150 :> 4) @@
  (152 :> 2) @@ (153 :> 5) @@ (154 :> 2) @@ (157 :> 5) @@ (160 :> 2) @@
  (161 :> 6) @@ (162 :> 2) @@ (164 :> 3) @@ (165 :> 3) @@ (166 :> 3) @@
  (168 :> 2) @@ (169 :> 2) @@ (170 :> 2) @@ (172 :> 4) @@ (173 :> 4) @@
  (174 :> 4) @@ (176 :> 2) @@ (177 :> 5) @@ (180 :> 4) @@ (181 :> 4) @@
  (182 :> 4) @@ (184 :> 2) @@ (185 :> 4) @@ (186 :> 2) @@ (188 :> 4) @@
  (189 :> 4) @@ (190 :> 4) @@ (192 :> 2) @@ (193 :> 6) @@ (196 :> 3) @@
  (197 :> 3) @@ (198 :> 5) @@ (200 :> 2) @@ (201 :> 2) @@ (202 :> 2) @@
  (204 :> 4) @@ (205 :> 4) @@ (206 :> 6) @@ (208 :> 2) @@ (209 :> 5) @@
  (213 :> 4) @@ (214 :> 6) @@ (216 :> 2) @@ (217 :> 4) @@ (221 :> 4) @@
  (222 :> 7) @@ (224 :> 2) @@ (225 :> 6) @@ (228 :> 3) @@ (229 :> 3) @@
  (230 :> 5) @@ (232 :> 2) @@ (233 :> 2) @@ (234 :> 2) @@ (236 :> 4) @@
  (237 :> 4) @@ (238 :> 6) @@ (240 :> 2) @@ (241 :> 5) @@ (245 :> 4) @@
  (246 :> 6) @@ (248 :> 2) @@ (249 :> 4) @@ (253 :> 4) @@ (254 :> 7)

\* The cycles a branch adds in the step from h.pre: 1 if taken, 1 more if
\* the target is on another page than the next instruction.
BranchPenalty(opcode) ==
  LET c0     == h.pre.cpu
      o      == ByteAt(h.pre, c0.PC + 1)
      signed == IF o >= 128 THEN o - 256 ELSE o
      next   == (c0.PC + 2) % 65536
      target == (next + signed) % 65536
  IN IF opcode \notin BranchOpcodes THEN 0
     ELSE IF ~BranchCondition(opcode, c0.SR) THEN 0
     ELSE IF target \div 256 = next \div 256 THEN 1 ELSE 2

Fetched(opcode) ==
  /\ LastWasStep /\ h.out.serviced = "none"
  /\ h.out.opcode = opcode

\* C15: every official 6502 opcode is implemented: a step that fetches one
\* executes it and never fails with UnimplementedOpcode.
C15_AllOfficial ==
  \A opcode \in DOMAIN OfficialCycles :
    Fetched(opcode) => h.out.thrown # UnimplementedOpcode

\* The address the "Unimplemented opcode" message reports, (this.PC - 1),
\* evaluated on the CPU as the failed fetch left it.
errorPC(s) == JsSub(s.cpu.PC, 1)

\* C16: a step that fetches a byte with no table entry fails with
\* UnimplementedOpcode carrying that byte and the address it was fetched
\* from, for every fetch address including $FFFF, and leaves A, X, Y, SP, P
\* and memory as they were.
C16_Unimplemented ==
  LET c0   == h.pre.cpu
      byte == ByteAt(h.pre, c0.PC)
  IN (LastWasStep /\ h.out.serviced = "none" /\ byte \notin DOMAIN instructions) =>
       /\ h.out.thrown = UnimplementedOpcode
       /\ h.out.opcode = byte
       /\ errorPC(m) = c0.PC
       /\ m.cpu.A = c0.A /\ m.cpu.X = c0.X /\ m.cpu.Y = c0.Y
       /\ m.cpu.SP = c0.SP /\ m.cpu.SR = c0.SR
       /\ m.ram = h.pre.ram /\ m.prgRam = h.pre.prgRam

\* ------------------------------------------------ programs run from reset
\* The host constructs the CPU over a ROM and from then on only calls step(),
\* triggerNMI(), triggerIRQ() and reset().
InitProg ==
  /\ \E rom \in VectorRoms : m = Machine(rom, WiringLoadCartridge)
  /\ h = HInit(m)
  /\ clock = ClockIdle
  /\ g = GInit
  /\ probe = NoProbe

SpecProg == InitProg /\ [][NextCpu]_vars

\* C17: in every state reached from reset by step, triggerNMI and triggerIRQ
\* calls, A, X, Y and SP are in 0..255 and PC is in 0..0xFFFF, so the stack
\* access at 0x0100 | SP addresses 0x0100..0x01FF.
C17_Ranges ==
  /\ m.cpu.A \in 0 .. 255
  /\ m.cpu.X \in 0 .. 255
  /\ m.cpu.Y \in 0 .. 255
  /\ m.cpu.SP \in 0 .. 255
  /\ m.cpu.PC \in 0 .. 65535
  /\ BitOr(256, m.cpu.SP) \in 256 .. 511

\* ------------------------------------------------------------ CPU.add
\* The host assigns A and the flags, then one ADC adds the operand M.
Bytes == 0 .. 255

InitAdc ==
  /\ \E a \in Bytes, sr \in {36, 230}, c \in BOOLEAN, d \in BOOLEAN :
       m = SetCpu(Machine(5, WiringLoadCartridge),
                  [Machine(5, WiringLoadCartridge).cpu
                     EXCEPT !.A = a,
                            !.SR = setFlag(setFlag(sr, Carry, c), Decimal, d)])
  /\ \E v \in Bytes : probe = [M |-> v, done |-> FALSE]
  /\ h = HInit(m)
  /\ clock = ClockIdle
  /\ g = GInit

Adc ==
  /\ ~probe.done
  /\ m' = SetCpu(m, add(m.cpu, probe.M))
  /\ h' = HNext("add", NoOutcome)
  /\ probe' = [probe EXCEPT !.done = TRUE]
  /\ UNCHANGED <<clock, g>>

NextAdc == Adc

SpecAdc == InitAdc /\ [][NextAdc]_vars

\* C18: for every A, M in 0..255 and carry-in C, ADC leaves
\* A' = (A+M+C) mod 256, C = (A+M+C > 0xFF),
\* V = ((~(A^M)) & (A^A')) >> 7 & 1, Z = (A' = 0), N = bit 7 of A', whether
\* D is set or clear; the other flags keep their values.
C18_Adc ==
  (h.op = "add") =>
    LET c0  == h.pre.cpu
        A   == c0.A
        M   == probe.M
        C   == IF getFlag(c0.SR, Carry) THEN 1 ELSE 0
        A1  == (A + M + C) % 256
        V   == (BitAnd(BitXor(255, BitXor(A, M)), BitXor(A, A1)) \div 128) % 2
    IN /\ m.cpu.A = A1
       /\ getFlag(m.cpu.SR, Carry) = (A + M + C > 255)
       /\ getFlag(m.cpu.SR, Overflow) = (V = 1)
       /\ getFlag(m.cpu.SR, Zero) = (A1 = 0)
       /\ getFlag(m.cpu.SR, Negative) = (A1 >= 128)
       /\ \A f \in {InterruptDisable, Decimal, Break, Unused} :
            getFlag(m.cpu.SR, f) = getFlag(c0.SR, f)

\* $50 + $50 with D set and V set beforehand: $A0 in binary, signed overflow.
C18_Witness ==
  /\ h.op = "add"
  /\ h.pre.cpu.A = 80 /\ probe.M = 80
  /\ getFlag(h.pre.cpu.SR, Decimal) /\ ~getFlag(h.pre.cpu.SR, Carry)
  /\ m.cpu.A = 160
  /\ getFlag(m.cpu.SR, Overflow) /\ ~getFlag(m.cpu.SR, Carry)

MaxWrites == 2    \* writePrg calls made by the host

PrgRamAddresses == {24576, 24577, 32767}

InitPrgRam ==
  /\ \E cfg \in Constructible : m = Machine(cfg[1], cfg[2])
  /\ h = HInit(m)
  /\ clock = ClockIdle
  /\ g = GInit
  /\ probe = [address |-> 0, v |-> 0, via |-> "none", done |-> FALSE,
              written |-> EmptyArray, writes |-> 0]

WritePrg ==
  /\ probe.writes < MaxWrites
  /\ \E address \in PrgRamAddresses, value \in {0, 1, 255} :
       /\ m' = Call("writePrg", <<m, address, value>>)
       /\ probe' = [probe EXCEPT !.done = FALSE, !.writes = @ + 1,
                                 !.written = [a \in DOMAIN @ \cup {address} |->
                                                IF a = address THEN value ELSE @[a]]]
  /\ UNCHANGED <<h, clock, g>>

ReadPrgRam ==
  /\ ~probe.done
  /\ \E address \in PrgRamAddresses :
       probe' = [probe EXCEPT !.address = address, !.via = "readPrg",
                              !.v = readPrg(m.rom, address).v, !.done = TRUE]
  /\ UNCHANGED <<m, h, clock, g>>

BusReadPrgRam ==
  /\ ~probe.done
  /\ \E address \in PrgRamAddresses :
       \E r \in {Call("BusRead", <<m, address>>)} :
         /\ m' = r.s
         /\ probe' = [probe EXCEPT !.address = address, !.via = "bus",
                                   !.v = r.v, !.done = TRUE]
  /\ UNCHANGED <<h, clock, g>>

NextPrgRam == WritePrg \/ ReadPrgRam \/ BusReadPrgRam

SpecPrgRam == InitPrgRam /\ [][NextPrgRam]_vars

\* C20: PRG-RAM is a store: after write_prg(a, v) with a in $6000..$7FFF,
\* read_prg(a) and a CPU bus read of a return v until the next write to a,
\* whatever was written to other addresses in between.
C20_PrgRam ==
  (probe.done /\ probe.address \in DOMAIN probe.written) =>
     probe.v = probe.written[probe.address]

\* ------------------------------------------------------- CPU bus writes
\* The host (or the CPU) writes bytes on the CPU bus with memory.write.
BusWriteAddresses ==
  {0, 256, 16407, 16408, 16415, 16416, 20480, 24575, 24576, 32767,
   32768, 49152, 65535}

InitBus ==
  /\ \E cfg \in Constructible : m = Machine(cfg[1], cfg[2])
  /\ h = HInit(m)
  /\ clock = ClockIdle
  /\ g = GInit
  /\ probe = [address |-> 0, value |-> 0, writes |-> 0]

BusWriteAt ==
  /\ probe.writes < MaxWrites
  /\ \E address \in BusWriteAddresses, value \in {1, 255} :
       /\ m' = Call("BusWrite", <<m, address, value>>)
       /\ h' = HNext("write", NoOutcome)
       /\ probe' = [address |-> address, value |-> value, writes |-> probe.writes + 1]
  /\ UNCHANGED <<clock, g>>

NextBus == BusWriteAt

SpecBus == InitBus /\ [][NextBus]_vars

INES_HEADER_SIZE == 16

FileTooSmall == "Invalid ROM: File too small"
NotINes == "Invalid ROM: Not an iNES file"

\* romData as the constructor sees it: its length, whether bytes 0..3 are
\* the magic "NES\x1a", and header bytes 4..7.  Header bytes past the end
\* of the array read as undefined.
RomFiles ==
  [length : {4, 15, 16, 17, 16400, 16912, 24592, 32784, 40976},
   magic : BOOLEAN, prg : {0, 1, 2}, chr : {0, 1},
   flags6 : {0, 1, 4, 8, 16, 20}, flags7 : {0, 16}]

\* Bytes of a bank taken from the file by
\* bank.set(romData.slice(start, start + size)): slice stops at the end of
\* the array and the rest of the new Uint8Array stays 0.
SliceLength(length, start, size) ==
  IF start >= length THEN 0
  ELSE IF start + size <= length THEN size ELSE length - start

\* new Cartridge(romData): thrown, or the fields of the cartridge made;
\* prgCopied[i] / chrCopied[i] count the file bytes that reached bank i.
CartridgeConstructor(rom) ==
  IF rom.length < INES_HEADER_SIZE
  THEN [thrown |-> FileTooSmall]
  ELSE IF ~rom.magic
  THEN [thrown |-> NotINes]
  ELSE LET prgRomSize == rom.prg * PRG_BANK_SIZE
           chrRomSize == rom.chr * CHR_BANK_SIZE
           mapper     == BitOr(BitAnd(rom.flags7, 240), rom.flags6 \div 16)
           hasTrainer == BitAnd(rom.flags6, 4) # 0
           offset     == INES_HEADER_SIZE + (IF hasTrainer THEN 512 ELSE 0)
       IN [thrown |-> NoThrow,
           mapper |-> mapper,
           mirroring |-> IF BitAnd(rom.flags6, 8) # 0 THEN "FourScreen"
                         ELSE IF BitAnd(rom.flags6, 1) # 0 THEN "Vertical"
                         ELSE "Horizontal",
           hasTrainer |-> hasTrainer,
           prgCopied |-> [i \in 0 .. rom.prg - 1 |->
                            SliceLength(rom.length, offset + i * PRG_BANK_SIZE,
                                        PRG_BANK_SIZE)],
           chrCopied |-> IF chrRomSize > 0
                         THEN [i \in 0 .. rom.chr - 1 |->
                                 SliceLength(rom.length,
                                             offset + prgRomSize + i * CHR_BANK_SIZE,
                                             CHR_BANK_SIZE)]
                         ELSE EmptyArray]

InitRomFile ==
  /\ m = Machine(2, WiringLoadCartridge)
  /\ h = HInit(m)
  /\ clock = ClockIdle
  /\ g = GInit
  /\ probe = [done |-> FALSE]

Construct ==
  /\ ~probe.done
  /\ \E rom \in RomFiles :
       probe' = [done |-> TRUE, rom |-> rom, cart |-> CartridgeConstructor(rom)]
  /\ UNCHANGED <<m, h, clock, g>>

NextRomFile == Construct

SpecRomFile == InitRomFile /\ [][NextRomFile]_vars

\* The size an iNES header declares: header, trainer if flagged, PRG, CHR.
DeclaredSize(rom) ==
  16 + (IF BitAnd(rom.flags6, 4) # 0 THEN 512 ELSE 0) + rom.prg * 16384 + rom.chr * 8192

\* C22: constructing a Cartridge from bytes with a valid magic whose declared
\* size exceeds their length fails (Truncated) and yields no cartridge.
C22_Truncated ==
  (probe.done /\ probe.rom.magic /\ DeclaredSize(probe.rom) > probe.rom.length) =>
     probe.cart.thrown # NoThrow

\* C23: constructing a Cartridge from a well-formed image (valid magic, no
\* byte missing) whose mapper id (flags7 & 0xF0) | (flags6 >> 4) is not 0
\* fails (UnsupportedMapper): no such cartridge is ever created.
C23_UnsupportedMapper ==
  (/\ probe.done /\ probe.rom.magic
   /\ DeclaredSize(probe.rom) <= probe.rom.length
   /\ BitOr(BitAnd(probe.rom.flags7, 240), probe.rom.flags6 \div 16) # 0) =>
     probe.cart.thrown # NoThrow

\* ------------------------------------------------------------ CHR memory
writeChr_unchecked(s, address, value) ==
  IF RomImages[s.rom].chrBanks = 0
  THEN [s EXCEPT !.chrRam = ArrayPut(@, address, value)]
  ELSE s

\* Cartridge.writeChr (mapper 0)
writeChr(s, address, value) ==
  IF address >= 8192 THEN [s EXCEPT !.fault = InvalidChrWrite]
  ELSE IF RomImages[s.rom].chrBanks = 0
  THEN [s EXCEPT !.chrRam = ArrayPut(@, address, value)]
  ELSE s

\* The host calls writeChr and readChr on a cartridge with CHR RAM (ROM 2)
\* or with a CHR-ROM bank (ROM 8).
ChrAddresses == {0, 1, 8191, 8192, 16383}

InitChr ==
  /\ \E rom \in {2, 8} : m = Machine(rom, WiringLoadCartridge)
  /\ h = HInit(m)
  /\ clock = ClockIdle
  /\ g = GInit
  /\ probe = [address |-> 0, v |-> 0, thrown |-> NoThrow,
              written |-> EmptyArray, writes |-> 0]

WriteChr ==
  /\ probe.writes < MaxWrites
  /\ \E address \in ChrAddresses, value \in {1, 255} :
       \E s \in {writeChr(m, address, value)} :
         /\ m' = [s EXCEPT !.fault = NoThrow]
         /\ probe' = [probe EXCEPT
                        !.address = address, !.v = value, !.thrown = s.fault,
                        !.writes = @ + 1,
                        !.written = IF address >= 8192 THEN @
                                    ELSE [a \in DOMAIN @ \cup {address} |->
                                            IF a = address THEN value ELSE @[a]]]
  /\ h' = HNext("writeChr", NoOutcome)
  /\ UNCHANGED <<clock, g>>

ReadChr ==
  /\ h.op # "readChr"
  /\ \E address \in ChrAddresses :
       \E r \in {readChr(m, address)} :
         /\ m' = [r.s EXCEPT !.fault = NoThrow]
         /\ probe' = [probe EXCEPT !.address = address, !.v = r.v,
                                   !.thrown = r.s.fault]
  /\ h' = HNext("readChr", NoOutcome)
  /\ UNCHANGED <<clock, g>>

NextChr == WriteChr \/ ReadChr

SpecChr == InitChr /\ [][NextChr]_vars

\* C24: for a < $2000, on a cartridge with CHR-ROM a read returns the ROM
\* byte whatever was written; without CHR banks a read returns the last byte
\* written there; reads and writes at a >= $2000 fail with InvalidChrAddress
\* and leave CHR memory as it was.
C24_Chr ==
  /\ (h.op = "readChr" /\ probe.address < 8192) =>
        /\ probe.thrown = NoThrow
        /\ probe.v = (IF RomImages[m.rom].chrBanks > 0 THEN RomImages[m.rom].chrFill
                      ELSE IF probe.address \in DOMAIN probe.written
                      THEN probe.written[probe.address] ELSE 0)
  /\ (h.op = "writeChr" /\ probe.address < 8192) => probe.thrown = NoThrow
  /\ (h.op = "readChr" /\ probe.address >= 8192) => probe.thrown = InvalidChrRead
  /\ (h.op = "writeChr" /\ probe.address >= 8192) => probe.thrown = InvalidChrWrite
  /\ (h.op \in {"readChr", "writeChr"} /\ probe.address >= 8192) =>
        m.chrRam = h.pre.chrRam

\* CHR RAM read back $FF at $1FFF after two writes.
C24_Witness ==
  /\ h.op = "readChr"
  /\ probe.address = 8191
  /\ probe.writes = 2
  /\ probe.v = 255
  /\ RomImages[m.rom].chrBanks = 0

\* --------------------------------------------------- nametable mirroring
MirroringModes ==
  {"Horizontal", "Vertical", "FourScreen", "SingleScreenLow", "SingleScreenHigh"}

\* The host picks a mirroring mode and an offset within a nametable, and
\* maps that offset of each of the four nametables.
InitMirror ==
  /\ m = Machine(2, WiringLoadCartridge)
  /\ h = HInit(m)
  /\ clock = ClockIdle
  /\ g = GInit
  /\ \E mode \in MirroringModes, offset \in 0 .. 1023 :
       probe = [mode |-> mode, offset |-> offset, done |-> FALSE]

MirrorVram ==
  /\ ~probe.done
  /\ probe' = [mode |-> probe.mode, offset |-> probe.offset, done |-> TRUE,
               out |-> [nt \in 0 .. 3 |->
                          mirrorVramAddress(probe.mode,
                                            8192 + nt * 1024 + probe.offset)]]
  /\ UNCHANGED <<m, h, clock, g>>

NextMirror == MirrorVram

SpecMirror == InitMirror /\ [][NextMirror]_vars

\* C25: mirror_vram agrees with the reference table on $2000..$2FFF:
\* Horizontal sends nametables 0 and 1 to one physical bank and 2 and 3 to
\* the other; Vertical sends 0 and 2 to one and 1 and 3 to the other; a
\* single-screen mode sends all four to one bank; four-screen is the
\* identity; the offset within the nametable is preserved.
C25_Mirror ==
  probe.done =>
    LET out == probe.out
    IN /\ \A nt \in 0 .. 3 : out[nt] \in 8192 .. 12287 /\ out[nt] % 1024 = probe.offset
       /\ probe.mode = "Horizontal" =>
            out[0] = out[1] /\ out[2] = out[3] /\ out[0] # out[2]
       /\ probe.mode = "Vertical" =>
            out[0] = out[2] /\ out[1] = out[3] /\ out[0] # out[1]
       /\ probe.mode \in {"SingleScreenLow", "SingleScreenHigh"} =>
            out[0] = out[1] /\ out[1] = out[2] /\ out[2] = out[3]
       /\ probe.mode = "FourScreen" =>
            \A nt \in 0 .. 3 : out[nt] = 8192 + nt * 1024 + probe.offset

\* ------------------------------------------------------------ palette RAM
\* One PPU write (PPU.writeVRAM) into the palette range, then one PPU read
\* (PPU.readVRAM).
PaletteAddresses ==
  {16128, 16129, 16132, 16140, 16144, 16145, 16148, 16156, 16160, 16176, 16368}

InitPalette ==
  /\ m = Machine(2, WiringSetPpu)
  /\ h = HInit(m)
  /\ clock = ClockIdle
  /\ g = GInit
  /\ probe = [waddr |-> 0, value |-> 0, raddr |-> 0, v |-> 0, done |-> FALSE]

WritePalette ==
  /\ h.op = "construct"
  /\ \E address \in PaletteAddresses, value \in {42, 63} :
       /\ m' = Call("writeVRAM", <<m, address, value>>)
       /\ probe' = [probe EXCEPT !.waddr = address, !.value = value]
  /\ h' = HNext("writeVRAM", NoOutcome)
  /\ UNCHANGED <<clock, g>>

ReadPalette ==
  /\ h.op = "writeVRAM"
  /\ \E address \in PaletteAddresses :
       \E r \in {Call("readVRAM", <<m, address>>)} :
         /\ m' = r.s
         /\ probe' = [probe EXCEPT !.raddr = address, !.v = r.v, !.done = TRUE]
  /\ h' = HNext("readVRAM", NoOutcome)
  /\ UNCHANGED <<clock, g>>

NextPalette == WritePalette \/ ReadPalette

SpecPalette == InitPalette /\ [][NextPalette]_vars

\* The palette entry a PPU address in $3F00..$3FFF names: the palette
\* repeats every 32 bytes and entries $10/$14/$18/$1C are $00/$04/$08/$0C.
PaletteEntry(address) ==
  LET i == address % 32
  IN IF i \in {16, 20, 24, 28} THEN i - 16 ELSE i

\* C26: palette entries $10/$14/$18/$1C are the storage of $00/$04/$08/$0C:
\* a read of any palette address returns the byte last written through any
\* address naming the same entry, in every mirror of $3F00..$3FFF.
C26_PaletteMirror ==
  (probe.done /\ PaletteEntry(probe.waddr) = PaletteEntry(probe.raddr)) =>
     probe.v = probe.value

\* ------------------------------------------- PPU registers on the CPU bus
\* The CPU reads and writes $2000..$3FFF on a Memory that holds the PPU,
\* and PPU.step runs in between: whole scanlines, up to vertical blank,
\* before the first access, three dots at a time afterwards.
MaxAccesses == 4
MaxRuns == 1

\* n calls of PPU.step in a row, split in halves to keep the evaluation
\* shallow; a scanline is 341 calls.
RECURSIVE PpuRun(_, _)
PpuRun(p, n) ==
  IF n <= 0 THEN p
  ELSE IF n = 1 THEN PpuStep(p)
  ELSE Once({PpuRun(q, n - (n \div 2)) : q \in {PpuRun(p, n \div 2)}})

\* PPUSTATUS and PPUDATA and two of their mirrors
PpuReadAddresses == {8194, 16378, 8199}

\* <<address, value>>: PPUCTRL, PPUSCROLL, PPUADDR (and a mirror), PPUDATA
PpuWrites ==
  {<<8192, 4>>, <<8197, 125>>, <<16382, 0>>, <<8198, 32>>, <<8198, 255>>,
   <<8199, 85>>}

\* The last three register accesses, oldest first.
LastThree(log) == IF Len(log) > 3 THEN Tail(log) ELSE log

\* What the access log holds of one access: the register, the byte written
\* or read, and the toggle, bus value and read buffer the access found.
Access(rw, address, value, out) ==
  [rw |-> rw, reg |-> BitAnd(address, 7), value |-> value, out |-> out,
   w |-> m.ppu.w, v |-> m.ppu.v, latch |-> probe.latch, buffer |-> probe.buffer]

InitPpuBus ==
  /\ m = Machine(2, WiringSetPpu)
  /\ h = HInit(m)
  /\ clock = ClockIdle
  /\ g = GInit
  /\ probe = [log |-> <<>>, accesses |-> 0, runs |-> 0,
              latch |-> Undefined, buffer |-> 0, k |-> 0 - 1]

ReadRegister ==
  /\ probe.accesses < MaxAccesses
  /\ \E address \in PpuReadAddresses :
       \E r \in {Call("BusRead", <<m, address>>)} :
         /\ m' = r.s
         /\ probe' = [probe EXCEPT
              !.log = LastThree(Append(@, Access("r", address, 0, r.v))),
              !.accesses = @ + 1,
              !.latch = r.v,
              !.buffer = IF BitAnd(address, 7) = 7 /\ BitAnd(m.ppu.v, 16383) < 16128
                         THEN Call("readVRAM", <<m, m.ppu.v>>).v ELSE @,
              !.k = IF BitAnd(address, 7) = 2 THEN 0 ELSE @]
  /\ h' = HNext("read", NoOutcome)
  /\ UNCHANGED <<clock, g>>

WriteRegister ==
  /\ probe.accesses < MaxAccesses
  /\ \E wr \in PpuWrites :
       /\ m' = Call("BusWrite", <<m, wr[1], wr[2]>>)
       /\ probe' = [probe EXCEPT
            !.log = LastThree(Append(@, Access("w", wr[1], wr[2], 0))),
            !.accesses = @ + 1,
            !.latch = wr[2],
            !.k = IF BitAnd(wr[1], 7) \in {5, 6} /\ @ >= 0 THEN @ + 1 ELSE @]
  /\ h' = HNext("write", NoOutcome)
  /\ UNCHANGED <<clock, g>>

RunPpu ==
  /\ probe.runs < MaxRuns
  /\ \E dots \in (IF probe.accesses = 0 THEN {3, 341 * 18, 341 * 243} ELSE {3}) :
       m' = [m EXCEPT !.ppu = PpuRun(@, dots)]
  /\ probe' = [probe EXCEPT !.runs = @ + 1]
  /\ h' = HNext("run", NoOutcome)
  /\ UNCHANGED <<clock, g>>

NextPpuBus == ReadRegister \/ WriteRegister \/ RunPpu

SpecPpuBus == InitPpuBus /\ [][NextPpuBus]_vars

\* The access just made, and the ones before it.
LastAccess == probe.log[Len(probe.log)]
AccessBefore(n) == probe.log[Len(probe.log) - n]

\* C27: a CPU read of PPUSTATUS (or a mirror) returns bits 7..5 of the
\* status register combined with the low five bits of the last value on the
\* PPU data bus, then clears VBlank and the write toggle w; a read right
\* after it returns VBlank = 0, and bits 6 and 5 are not changed by the read.
C27_Status ==
  (h.op = "read" /\ LastAccess.reg = 2 /\ m.fault = NoThrow) =>
     /\ LastAccess.latch # Undefined =>
          LastAccess.out = BitOr(BitAnd(h.pre.ppu.status, 224),
                                 BitAnd(LastAccess.latch, 31))
     /\ BitAnd(LastAccess.out, 224) = BitAnd(h.pre.ppu.status, 224)
     /\ BitAnd(m.ppu.status, 128) = 0
     /\ m.ppu.w = 0
     /\ BitAnd(m.ppu.status, 96) = BitAnd(h.pre.ppu.status, 96)
     /\ (h.prevOp = "read" /\ Len(probe.log) > 1 /\ AccessBefore(1).reg = 2) =>
          BitAnd(LastAccess.out, 128) = 0

\* The last three accesses were: PPUADDR written with w = 0, PPUADDR written
\* again, PPUDATA written.
AddressedWrite ==
  /\ Len(probe.log) = 3
  /\ \A i \in 1..3 : probe.log[i].rw = "w"
  /\ probe.log[1].reg = 6 /\ probe.log[1].w = 0
  /\ probe.log[2].reg = 6
  /\ probe.log[3].reg = 7
  /\ m.fault = NoThrow

\* The PPU address two PPUADDR writes name.
Addressed == (probe.log[1].value * 256 + probe.log[2].value) % 16384

\* C28: with w = 0, writing hi then lo to PPUADDR and then b to PPUDATA
\* stores b at PPU address ((hi << 8) | lo) & $3FFF, where the PPU reads it
\* back, and leaves v at that address plus 1 (PPUCTRL bit 2 clear) or plus
\* 32 (bit 2 set).
C28_AddrData ==
  AddressedWrite =>
     /\ Call("readVRAM", <<m, Addressed>>).v = probe.log[3].value
     /\ m.ppu.v = Addressed + (IF BitAnd(m.ppu.ctrl, 4) = 0 THEN 1 ELSE 32)

\* The access just made wrote PPUSCROLL or PPUADDR / read PPUSTATUS.
ToggleWrite == h.op = "write" /\ LastAccess.reg \in {5, 6}
StatusRead  == h.op = "read" /\ LastAccess.reg = 2

C30_DataRead ==
  (h.op = "read" /\ LastAccess.reg = 7 /\ m.fault = NoThrow) =>
     /\ IF BitAnd(LastAccess.v, 16383) < 16128
        THEN /\ LastAccess.out = LastAccess.buffer
             /\ probe.buffer = Call("readVRAM", <<h.pre, LastAccess.v>>).v
        ELSE LastAccess.out = Call("readVRAM", <<h.pre, LastAccess.v>>).v
     /\ m.ppu.v = LastAccess.v + (IF BitAnd(m.ppu.ctrl, 4) = 0 THEN 1 ELSE 32)

\* ------------------------------------------- PPU dots, PPUCTRL and the NMI
\* PPU.step in runs of one dot or of whole scanlines, with CPU writes of
\* PPUCTRL between the runs and the frame driver's checkNMI / triggerNMI
\* pair.
MaxFrames == 2
MaxCtrlWrites == 2
MaxDotRuns == 5

\* probe.enable is bit 7 of the most recent PPUCTRL write, 0 when the
\* program has written none; probe.delivered counts the edges handed to
\* the CPU.
InitPpuFrame ==
  /\ m = Machine(2, WiringSetPpu)
  /\ h = HInit(m)
  /\ clock = ClockIdle
  /\ g = GInit
  /\ probe = [ctrlWrites |-> 0, enable |-> 0, everEnabled |-> FALSE,
              delivered |-> 0, value |-> 0, runs |-> 0]

\* One call of PPU.step.
StepDot ==
  /\ m.ppu.frame < MaxFrames
  /\ m' = [m EXCEPT !.ppu = PpuStep(@)]
  /\ h' = HNext("step", NoOutcome)
  /\ UNCHANGED <<clock, g, probe>>

\* The runs of PPU.step taken from a dot: one call anywhere, the 241
\* scanlines to the line of vertical blank from the start of a frame, the
\* 20 scanlines to the pre-render line from there.
RunLengths(p) ==
  IF p.scanline = 0 /\ p.cycle = 0 THEN {1, 341 * 241}
  ELSE IF p.scanline = 241 /\ p.cycle <= 2 THEN {1, 341 * 20}
  ELSE {1}

RunDots ==
  /\ probe.runs < MaxDotRuns
  /\ \E dots \in RunLengths(m.ppu) : m' = [m EXCEPT !.ppu = PpuRun(@, dots)]
  /\ probe' = [probe EXCEPT !.runs = @ + 1]
  /\ h' = HNext("run", NoOutcome)
  /\ UNCHANGED <<clock, g>>

WriteControl ==
  /\ probe.ctrlWrites < MaxCtrlWrites
  /\ \E value \in {0, 128} :
       /\ m' = Call("BusWrite", <<m, 8192, value>>)
       /\ probe' = [probe EXCEPT !.ctrlWrites = @ + 1,
                                 !.enable = value \div 128,
                                 !.everEnabled = @ \/ value >= 128,
                                 !.value = value]
  /\ h' = HNext("writeControl", NoOutcome)
  /\ UNCHANGED <<clock, g>>

\* NesConsole.runFrame: if (ppu.checkNMI()) cpu.triggerNMI().  A call that
\* finds no edge changes nothing.
CheckNmi ==
  /\ checkNMI(m.ppu).v = 1
  /\ m' = triggerNMI([m EXCEPT !.ppu = checkNMI(m.ppu).p])
  /\ probe' = [probe EXCEPT !.delivered = @ + 1]
  /\ h' = HNext("checkNMI", NoOutcome)
  /\ UNCHANGED <<clock, g>>

NextPpuFrame == RunDots \/ WriteControl \/ CheckNmi

SpecPpuFrame == InitPpuFrame /\ [][NextPpuFrame]_vars

\* The PPU alone, dot by dot, picked up after construction and after every
\* further twenty scanlines (a frame is 262 scanlines, 89342 calls).
StartDots == {89342 * f + 341 * 20 * k : f \in 0..(MaxFrames - 1), k \in 0..13}

InitDots ==
  /\ \E d \in StartDots : m = [Machine(2, WiringSetPpu) EXCEPT !.ppu = PpuRun(@, d)]
  /\ h = HInit(m)
  /\ clock = ClockIdle
  /\ g = GInit
  /\ probe = [ctrlWrites |-> 0, enable |-> 0, everEnabled |-> FALSE,
              delivered |-> 0, value |-> 0, runs |-> 0]

SpecDots == InitDots /\ [][StepDot]_vars

VBlankSet(p) == BitAnd(p.status, 128) # 0

\* C31: a PPUCTRL write that turns NMI-enable from 0 to 1 while the VBlank
\* flag is set latches an NMI edge for the CPU; a write that keeps
\* NMI-enable at 1, or sets it while VBlank is clear, latches none; a
\* latched edge is handed to the CPU once.
C31_EnableInVBlank ==
  /\ h.op = "writeControl" =>
       IF VBlankSet(h.pre.ppu) /\ h.pre.ppu.nmiEnabled = 0 /\ probe.value >= 128
       THEN m.ppu.nmiOccurred = 1
       ELSE m.ppu.nmiOccurred = h.pre.ppu.nmiOccurred
  /\ h.op = "checkNMI" => (m.ppu.nmiOccurred = 0 /\ m.cpu.pendingNMI)

\* The dot the next PPU.step call handles, counted from the frame's start.
Dot(p) == p.scanline * 341 + p.cycle

\* C32: in every frame the step at dot 1 of scanline 241 sets VBlank and
\* the step at dot 1 of the pre-render scanline (261) clears VBlank,
\* sprite-0-hit and sprite-overflow; with no PPUSTATUS read VBlank is set
\* exactly from after dot (241,1) until dot (261,1) has been handled.
C32_VBlank ==
  /\ VBlankSet(m.ppu) <=> (Dot(m.ppu) > 241 * 341 + 1 /\ Dot(m.ppu) <= 261 * 341 + 1)
  /\ (h.op = "step" /\ Dot(h.pre.ppu) = 241 * 341 + 1) =>
       (VBlankSet(m.ppu) /\ ~VBlankSet(h.pre.ppu))
  /\ (h.op = "step" /\ Dot(h.pre.ppu) = 261 * 341 + 1) =>
       (VBlankSet(h.pre.ppu) /\ BitAnd(m.ppu.status, 224) = 0)

\* The second frame is in vertical blank, at scanline 250.
C32_Witness ==
  h.op = "step" /\ m.ppu.frame = 1 /\ m.ppu.scanline = 250 /\ VBlankSet(m.ppu)

\* The run just made handled dot 1 of scanline 241.
HandledVBlankDot ==
  h.op = "run" /\ Dot(h.pre.ppu) <= 241 * 341 + 1 /\ Dot(m.ppu) > 241 * 341 + 1

\* C33: the PPU latches an NMI edge at dot 1 of scanline 241 iff NMI-enable
\* (bit 7 of the most recent PPUCTRL write, 0 after reset when the program
\* wrote none) is set at that moment; when the program never enabled the
\* NMI no edge is ever latched or delivered to the CPU.
C33_NmiLatch ==
  /\ HandledVBlankDot => (m.ppu.nmiOccurred = 1 <=> probe.enable = 1)
  /\ ~probe.everEnabled =>
       (m.ppu.nmiOccurred = 0 /\ probe.delivered = 0 /\ ~m.cpu.pendingNMI)

\* ------------------------------------------------------ sprite evaluation
\* PPU.oamMemory: filled with 0 at construction and never written; the
\* OAMDATA register writes PPU.oam.
oamMemory == EmptyArray

\* The sprite state PPU.reset leaves: none selected.
NoSprites ==
  [spriteCount |-> 0, spriteIndexes |-> <<>>, spritePositions |-> <<>>,
   spriteAttributes |-> <<>>, spritePatterns |-> <<>>, spriteZeroHitPossible |-> 0]

\* The loop of PPU.evaluateSprites from sprite i on with n sprites selected
\* so far (indexes, in order); spriteSize is 0 (8x8) since only
\* updateControlRegister, called by reset alone, assigns it.
RECURSIVE scanSprites(_, _, _)
scanSprites(scanline, i, indexes) ==
  IF ~(i < 64 /\ Len(indexes) < 8) THEN indexes
  ELSE LET y   == ArrayGet(oamMemory, i * 4)
           row == scanline - y
       IN IF row < 0 \/ row >= 8
          THEN scanSprites(scanline, i + 1, indexes)
          ELSE scanSprites(scanline, i + 1, Append(indexes, i))

\* The two pattern bytes PPU.evaluateSprites fetches for sprite i
\* (spritePatternTable is 0, as reset leaves it).
spritePattern(s, i) ==
  LET tile == ArrayGet(oamMemory, i * 4 + 1)
      attributes == ArrayGet(oamMemory, i * 4 + 2)
      row == s.ppu.scanline - ArrayGet(oamMemory, i * 4)
      patternRow == IF BitAnd(attributes, 128) # 0 THEN 7 - row ELSE row
      patternAddr == BitOr(tile * 16, patternRow)
  IN <<Call("readVRAM", <<s, patternAddr>>).v, Call("readVRAM", <<s, patternAddr + 8>>).v>>

\* PPU.evaluateSprites: [s |-> the machine afterwards, sp |-> the sprite state]
evaluateSprites(s, sp) ==
  IF BitAnd(s.ppu.mask, 16) = 0 THEN [s |-> s, sp |-> sp]
  ELSE LET indexes == scanSprites(s.ppu.scanline, 0, <<>>)
           n == Len(indexes)
       IN [s  |-> IF n > 8 THEN [s EXCEPT !.ppu.status = BitOr(@, 32)] ELSE s,
           sp |-> [spriteCount |-> IF n > 8 THEN 8 ELSE n,
                   spriteIndexes |-> indexes,
                   spritePositions |-> [k \in 1..n |-> ArrayGet(oamMemory, indexes[k] * 4 + 3)],
                   spriteAttributes |-> [k \in 1..n |-> ArrayGet(oamMemory, indexes[k] * 4 + 2)],
                   spritePatterns |-> [k \in 1..n |-> spritePattern(s, indexes[k])],
                   spriteZeroHitPossible |-> IF n > 0 /\ indexes[1] = 0 THEN 1 ELSE 0]]

\* The CPU fills OAM through OAMDATA, four bytes a sprite (y, tile,
\* attributes, x); then PPU.step at dot 257 of a visible scanline
\* evaluates the sprites of the line.
MaxSprites == 9
SpriteLines == {0, 100}

InitSprites ==
  /\ \E line \in SpriteLines :
       m = [Machine(2, WiringSetPpu) EXCEPT !.ppu = PpuRun(@, 341 * line + 257)]
  /\ h = HInit(m)
  /\ clock = ClockIdle
  /\ g = GInit
  /\ probe = [written |-> 0, sprites |-> NoSprites, evaluated |-> FALSE]

\* y is the scanline (in range) or 200 (out of range).
WriteOamData ==
  /\ ~probe.evaluated
  /\ probe.written < 4 * MaxSprites
  /\ \E value \in (IF m.ppu.oamAddr % 4 = 0 THEN {m.ppu.scanline, 200}
                   ELSE {m.ppu.oamAddr}) :
       m' = Call("BusWrite", <<m, 8196, value>>)
  /\ probe' = [probe EXCEPT !.written = @ + 1]
  /\ h' = HNext("writeOAMData", NoOutcome)
  /\ UNCHANGED <<clock, g>>

\* PPU.step at dot 257 of a visible scanline
StepEvaluate ==
  /\ ~probe.evaluated
  /\ probe.written % 4 = 0
  /\ m.ppu.scanline < 240 /\ m.ppu.cycle = 257
  /\ \E r \in {evaluateSprites(m, probe.sprites)} :
       /\ m' = [r.s EXCEPT !.ppu = PpuStep(@)]
       /\ probe' = [probe EXCEPT !.sprites = r.sp, !.evaluated = TRUE]
  /\ h' = HNext("step", NoOutcome)
  /\ UNCHANGED <<clock, g>>

NextSprites == WriteOamData \/ StepEvaluate

SpecSprites == InitSprites /\ [][NextSprites]_vars

\* The sprites of OAM whose eight rows cover the scanline, in OAM order.
RECURSIVE InRange(_, _, _)
InRange(oam, scanline, i) ==
  IF i >= 64 THEN <<>>
  ELSE LET row == scanline - ArrayGet(oam, i * 4)
       IN (IF row >= 0 /\ row < 8 THEN <<i>> ELSE <<>>) \o InRange(oam, scanline, i + 1)

\* C34: sprite evaluation of a line with exactly eight sprites of OAM (as
\* written through OAMDATA) in range stores all eight and leaves the
\* sprite-overflow bit clear; with nine or more in range it stores the first
\* eight in OAM order and sets the sprite-overflow bit.
C34_Overflow ==
  probe.evaluated =>
     LET covering == InRange(h.pre.ppu.oam, h.pre.ppu.scanline, 0)
     IN /\ Len(covering) = 8 =>
             (probe.sprites.spriteIndexes = covering /\ BitAnd(m.ppu.status, 32) = 0)
        /\ Len(covering) >= 9 =>
             (probe.sprites.spriteIndexes = SubSeq(covering, 1, 8) /\
              BitAnd(m.ppu.status, 32) # 0)

\* ------------------------------------------------------------- rendering
SCREEN_WIDTH == 256
SCREEN_HEIGHT == 240

\* What renderPixel computed for the dot, or that it returned early.
NoPixel ==
  [drawn |-> FALSE, x |-> 0, y |-> 0, bgPixel |-> 0, spritePixel |-> 0,
   sprite |-> Undefined, paletteIndex |-> 0]

\* The rendering fields PPU.reset leaves: shifters and tile latches zero, no
\* sprites selected, frameBuffer.fill(0).  Of the frame buffer the record
\* keeps alpha, the set of pixels y * 256 + x whose alpha byte is 255 (every
\* other alpha byte is 0), and pixel, the palette index of the last dot.
RenderReset ==
  [bgShiftRegLow |-> 0, bgShiftRegHigh |-> 0, bgAttrShiftLow |-> 0,
   bgAttrShiftHigh |-> 0, bgTileLow |-> 0, bgTileHigh |-> 0,
   bgAttributeLatch |-> 0, bgNameTable |-> 0,
   sprites |-> NoSprites, alpha |-> {}, pixel |-> NoPixel]

\* (value >> n) & 1
BitAt(value, n) == (value \div (2 ^ n)) % 2

\* PPU.getBackgroundPixel
getBackgroundPixel(p, r) ==
  IF BitAnd(p.mask, 8) = 0 THEN 0
  ELSE LET xFine == 7 - p.x
           pixel == BitAt(r.bgShiftRegHigh, xFine) * 2 + BitAt(r.bgShiftRegLow, xFine)
           attribute == BitAt(r.bgAttrShiftHigh, xFine) * 2 + BitAt(r.bgAttrShiftLow, xFine)
       IN attribute * 4 + pixel

\* The pixel of selected sprite i (1-based) at column x, 0 when the sprite
\* does not cover x: the body of the sprite loop of PPU.renderPixel.
spritePixelAt(sp, i, x) ==
  LET offset == x - sp.spritePositions[i]
      pattern == sp.spritePatterns[i][2] * 256 + sp.spritePatterns[i][1]
      pixelBit == IF BitAnd(sp.spriteAttributes[i], 64) # 0 THEN offset ELSE 7 - offset
  IN IF offset < 0 \/ offset > 7 THEN 0
     ELSE (pattern \div (2 ^ (pixelBit * 2))) % 4

\* PPU.renderPixel: the render state after the dot p.cycle of line p.scanline
renderPixel(p, r) ==
  LET x == p.cycle - 1
      y == p.scanline
      sp == r.sprites
      early == [r EXCEPT !.pixel = NoPixel]
  IN IF BitAnd(p.mask, 24) = 0 THEN early
     ELSE IF x < 0 \/ x >= SCREEN_WIDTH \/ y < 0 \/ y >= SCREEN_HEIGHT THEN early
     ELSE IF x < 8 /\ BitAnd(p.mask, 2) = 0 THEN early
     ELSE IF x < 8 /\ BitAnd(p.mask, 4) = 0 /\ sp.spriteCount > 0 THEN early
     ELSE
       LET bgPixel == IF BitAnd(p.mask, 8) # 0 THEN getBackgroundPixel(p, r) ELSE 0
           bgPalette == bgPixel
           found == IF BitAnd(p.mask, 16) # 0
                    THEN {i \in 1..sp.spriteCount : spritePixelAt(sp, i, x) # 0}
                    ELSE {}
           first == IF found = {} THEN 0
                    ELSE CHOOSE i \in found : \A j \in found : i <= j
           spritePixel == IF first = 0 THEN 0 ELSE spritePixelAt(sp, first, x)
           attributes == IF first = 0 THEN 0 ELSE sp.spriteAttributes[first]
           spritePalette == IF first = 0 THEN 0
                            ELSE BitOr(BitAnd(attributes, 3) * 4, spritePixel)
           spritePriority == IF BitAnd(attributes, 32) # 0 THEN 1 ELSE 0
           chosen == IF bgPixel = 0 /\ spritePixel = 0 THEN 0
                     ELSE IF bgPixel = 0 THEN BitOr(16, spritePalette)
                     ELSE IF spritePixel = 0 THEN bgPalette
                     ELSE IF spritePriority = 0 THEN BitOr(16, spritePalette)
                     ELSE bgPalette
           paletteIndex == IF BitAnd(p.mask, 1) # 0 THEN BitAnd(chosen, 48) ELSE chosen
       IN [r EXCEPT !.alpha = @ \cup {y * SCREEN_WIDTH + x},
                    !.pixel = [drawn |-> TRUE, x |-> x, y |-> y, bgPixel |-> bgPixel,
                               spritePixel |-> spritePixel,
                               sprite |-> IF first = 0 THEN Undefined
                                          ELSE sp.spriteIndexes[first],
                               paletteIndex |-> paletteIndex]]

\* PPU.loadBackgroundShifters; attributeBits is shifted left by 6, so its
\* bits 0 and 1 are clear and both attribute shifters load 0x00.
loadBackgroundShifters(p, r) ==
  LET attributeBits ==
        ((r.bgAttributeLatch \div (2 ^ BitAnd(p.v \div 16, 4))) % 4) * 64
  IN [r EXCEPT
        !.bgShiftRegLow = BitOr(BitAnd(@, 65280), r.bgTileLow),
        !.bgShiftRegHigh = BitOr(BitAnd(@, 65280), r.bgTileHigh),
        !.bgAttrShiftLow =
           BitOr(BitAnd(@, 65280), IF BitAnd(attributeBits, 1) # 0 THEN 255 ELSE 0),
        !.bgAttrShiftHigh =
           BitOr(BitAnd(@, 65280), IF BitAnd(attributeBits, 2) # 0 THEN 255 ELSE 0)]

\* PPU.updateShiftRegisters
updateShiftRegisters(p, r) ==
  IF BitAnd(p.mask, 8) = 0 THEN r
  ELSE [r EXCEPT !.bgShiftRegLow = JsShl(@, 1), !.bgShiftRegHigh = JsShl(@, 1),
                 !.bgAttrShiftLow = JsShl(@, 1), !.bgAttrShiftHigh = JsShl(@, 1)]

\* PPU.fetchBackgroundTile: [s |-> the machine, r |-> the render state]
fetchBackgroundTile(s, r) ==
  LET p == s.ppu
      fineY == (p.v \div 4096) % 8
      patternTable == IF BitAnd(p.ctrl, 16) # 0 THEN 4096 ELSE 0
      phase == p.cycle % 8
      addr == CASE phase = 1 -> BitOr(8192, BitAnd(p.v, 4095))
                [] phase = 3 -> BitOr(BitOr(9152, BitAnd(p.v, 3072)),
                                      BitOr(BitAnd(p.v \div 16, 56), BitAnd(p.v \div 4, 7)))
                [] phase = 5 -> patternTable + r.bgNameTable * 16 + fineY
                [] phase = 7 -> patternTable + r.bgNameTable * 16 + fineY + 8
                [] OTHER -> 0
  IN IF phase \notin {1, 3, 5, 7} THEN [s |-> s, r |-> r]
     ELSE LET rd == Call("readVRAM", <<s, addr>>)
          IN [s |-> rd.s,
              r |-> CASE phase = 1 -> [r EXCEPT !.bgNameTable = rd.v]
                      [] phase = 3 -> [r EXCEPT !.bgAttributeLatch = rd.v]
                      [] phase = 5 -> [r EXCEPT !.bgTileLow = rd.v]
                      [] OTHER -> loadBackgroundShifters(p, [r EXCEPT !.bgTileHigh = rd.v])]

\* The rendering calls of PPU.step at the dot the PPU is on:
\* [s |-> the machine, r |-> the render state]
renderDot(s, r) ==
  IF s.ppu.scanline >= 240 THEN [s |-> s, r |-> r]
  ELSE IF s.ppu.cycle >= 1 /\ s.ppu.cycle <= 256
  THEN LET f == fetchBackgroundTile(s, renderPixel(s.ppu, r))
       IN [s |-> f.s, r |-> updateShiftRegisters(f.s.ppu, f.r)]
  ELSE IF s.ppu.cycle = 257
  THEN LET e == evaluateSprites(s, r.sprites)
       IN [s |-> e.s, r |-> [r EXCEPT !.sprites = e.sp]]
  ELSE [s |-> s, r |-> r]

\* PPU.renderFrame: the alpha byte of pixel i of the buffer it returns
\* (the buffer is this.frameBuffer on both paths, 256 * 240 * 4 bytes long).
renderFrame(r, i) == IF i \in r.alpha THEN 255 ELSE 0

\* The PPU renders the first scanlines of a frame dot by dot on a CHR-RAM
\* cartridge (pattern tables all zero) and on a CHR-ROM cartridge (every
\* pattern byte 0x55); before a scanline begins the CPU may write PPUMASK,
\* and before the frame begins it may write sprite 0 through OAMDATA.
MaxRenderLines == 2
MaxMaskWrites == 1
MaxOamWrites == 4
RenderRoms == {2, 9}
MaskValues == {0, 24, 30}

InitRender ==
  /\ \E rom \in RenderRoms : m = Machine(rom, WiringSetPpu)
  /\ h = HInit(m)
  /\ clock = ClockIdle
  /\ g = GInit
  /\ probe = [r |-> RenderReset, maskWrites |-> 0, oamWrites |-> 0, due |-> FALSE]

\* Sprite 0 as OAM holds it covers the line the dot is on (a sprite with
\* y byte Y is drawn on lines Y + 1 .. Y + 8), and the dot the PPU drew shows
\* a non-transparent pixel of it over a non-transparent background pixel with
\* both layers enabled, left of column 255.
SpriteZeroHitDue(p, oamWrites, pixel) ==
  /\ pixel.drawn
  /\ oamWrites = 4
  /\ (p.scanline - 1) - ArrayGet(p.oam, 0) \in 0..7
  /\ pixel.sprite = 0
  /\ pixel.spritePixel # 0
  /\ pixel.bgPixel # 0
  /\ BitAnd(p.mask, 24) = 24
  /\ pixel.x # 255

\* PPU.step with its rendering calls
RenderStep ==
  /\ m.ppu.scanline < MaxRenderLines
  /\ \E d \in {renderDot(m, probe.r)} :
       /\ m' = [d.s EXCEPT !.ppu = PpuStep(@)]
       /\ probe' = [probe EXCEPT
            !.r = d.r,
            !.due = IF m.ppu.scanline = 261 /\ m.ppu.cycle = 1 THEN FALSE
                    ELSE IF m.ppu.scanline < 240 /\ m.ppu.cycle \in 1..256 /\
                            SpriteZeroHitDue(m.ppu, probe.oamWrites, d.r.pixel)
                    THEN TRUE ELSE @]
  /\ h' = HNext("step", NoOutcome)
  /\ UNCHANGED <<clock, g>>

\* The CPU writes PPUMASK between two scanlines.
WriteMask ==
  /\ probe.maskWrites < MaxMaskWrites
  /\ m.ppu.cycle = 0 /\ m.ppu.scanline < MaxRenderLines
  /\ \E value \in MaskValues : m' = Call("BusWrite", <<m, 8193, value>>)
  /\ probe' = [probe EXCEPT !.maskWrites = @ + 1]
  /\ h' = HNext("writeMask", NoOutcome)
  /\ UNCHANGED <<clock, g>>

\* The CPU writes the four bytes of sprite 0 (y 0 or 200, tile 0,
\* attributes 0, x 0) through OAMDATA before the frame begins.
WriteSpriteZero ==
  /\ probe.oamWrites < MaxOamWrites
  /\ m.ppu.oamAddr < 4
  /\ m.ppu.cycle = 0 /\ m.ppu.scanline = 0 /\ probe.maskWrites = 0
  /\ \E value \in (IF m.ppu.oamAddr = 0 THEN {0, 200} ELSE {0}) :
       m' = Call("BusWrite", <<m, 8196, value>>)
  /\ probe' = [probe EXCEPT !.oamWrites = @ + 1]
  /\ h' = HNext("writeOAMData", NoOutcome)
  /\ UNCHANGED <<clock, g>>

NextRender == RenderStep \/ WriteMask \/ WriteSpriteZero

SpecRender == InitRender /\ [][NextRender]_vars

\* C35: while rendering, the sprite-0-hit bit of the status register is set
\* exactly when, since pre-render dot 1, some visible dot at column x had
\* sprite 0 (written through OAMDATA) on its line, a non-transparent pixel of
\* it over a non-transparent background pixel, both layers enabled, x not 255
\* and x not in a clipped left column.
C35_SpriteZeroHit ==
  (BitAnd(m.ppu.status, 64) # 0) <=> probe.due

\* C36: every alpha byte of the frame buffer renderFrame returns is 255, in
\* every state (after construction, with rendering disabled, in clipped left
\* columns).
C36_Alpha ==
  \A i \in 0..(SCREEN_WIDTH * SCREEN_HEIGHT - 1) : renderFrame(probe.r, i) = 255

\* --------------------------------------------------- the address registers
\* The CPU writes PPUCTRL, PPUSCROLL and PPUADDR, reads and writes PPUDATA,
\* and the PPU steps in between, on a CHR-RAM and on a CHR-ROM cartridge.
MaxRegisterAccesses == 5
MaxPpuSteps == 1
ControlValues == {3, 7}
ScrollValues == {0, 255}
AddressValues == {0, 255}

InitAddress ==
  /\ \E rom \in RenderRoms : m = Machine(rom, WiringSetPpu)
  /\ h = HInit(m)
  /\ clock = ClockIdle
  /\ g = GInit
  /\ probe = [accesses |-> 0, steps |-> 0]

\* a CPU store to a PPU register
RegisterWrite(address, value, op) ==
  /\ probe.accesses < MaxRegisterAccesses
  /\ m' = Call("BusWrite", <<m, address, value>>)
  /\ probe' = [probe EXCEPT !.accesses = @ + 1]
  /\ h' = HNext(op, NoOutcome)
  /\ UNCHANGED <<clock, g>>

WritePpuCtrl == \E value \in ControlValues : RegisterWrite(8192, value, "writeControl")

WritePpuScroll == \E value \in ScrollValues : RegisterWrite(8197, value, "writeScroll")

WritePpuAddr == \E value \in AddressValues : RegisterWrite(8198, value, "writeAddress")

WritePpuData == RegisterWrite(8199, 85, "writeData")

ReadPpuData ==
  /\ probe.accesses < MaxRegisterAccesses
  /\ \E rd \in {Call("BusRead", <<m, 8199>>)} :
       /\ m' = rd.s
       /\ h' = HNext("readData", [NoOutcome EXCEPT !.ret = rd.v])
  /\ probe' = [probe EXCEPT !.accesses = @ + 1]
  /\ UNCHANGED <<clock, g>>

StepPpu ==
  /\ probe.steps < MaxPpuSteps
  /\ m' = [m EXCEPT !.ppu = PpuRun(@, 3)]
  /\ probe' = [probe EXCEPT !.steps = @ + 1]
  /\ h' = HNext("step", NoOutcome)
  /\ UNCHANGED <<clock, g>>

NextAddress ==
  WritePpuCtrl \/ WritePpuScroll \/ WritePpuAddr \/ WritePpuData \/ ReadPpuData \/ StepPpu

SpecAddress == InitAddress /\ [][NextAddress]_vars

\* C37: in every state reached by PPUCTRL, PPUSCROLL and PPUADDR writes,
\* PPUDATA reads and writes and PPU steps, v and t are within 0..0x7FFF,
\* fine-x is within 0..7 and w is 0 or 1.
C37_FifteenBit ==
  /\ m.ppu.v \in 0..32767
  /\ m.ppu.t \in 0..32767
  /\ m.ppu.x \in 0..7
  /\ m.ppu.w \in {0, 1}

\* C38: a PPUDATA access with v below 0x2000 goes to cartridge CHR: a read
\* returns the CHR byte; a write on a CHR-RAM cartridge is what a later
\* pattern fetch at that address reads, a write on a CHR-ROM cartridge leaves
\* the pattern bytes as they were; nametable VRAM and palette RAM are
\* unchanged in both cases.
C38_ChrRouted ==
  LET address == h.pre.ppu.v
  IN /\ (h.op = "readData" /\ address < 8192) =>
          h.out.ret = readChr(h.pre, address).v
     /\ (h.op = "writeData" /\ address < 8192) =>
          /\ readVRAM(m, address).v =
               (IF RomImages[m.rom].chrBanks = 0 THEN 85 ELSE readVRAM(h.pre, address).v)
          /\ m.ppu.vram = h.pre.ppu.vram
          /\ m.ppu.paletteRam = h.pre.ppu.paletteRam

\* ------------------------------------------------- nametables through PPUDATA
\* Memory.mapPpuAddress of the Memory class that maps the nametables itself
\* instead of calling Cartridge.mirrorVramAddress
RECURSIVE mapPpuAddressOwn(_, _)
mapPpuAddressOwn(mirroringMode, address0) ==
  LET address == BitAnd(address0, 16383)
      nameTable == (address - 8192) \div 1024
      offset == BitAnd(address, 1023)
  IN IF address < 8192 THEN address
     ELSE IF address < 12288
     THEN CASE mirroringMode = "Horizontal" ->
                 8192 + (IF BitAnd(nameTable, 2) # 0 THEN 2048 ELSE 0) + offset
            [] mirroringMode = "Vertical" ->
                 8192 + (IF BitAnd(nameTable, 1) # 0 THEN 2048 ELSE 0) + offset
            [] mirroringMode = "SingleScreenLow" -> 8192 + offset
            [] mirroringMode = "SingleScreenHigh" -> 10240 + offset
            [] OTHER -> address
     ELSE IF address < 16128 THEN mapPpuAddressOwn(mirroringMode, address - 4096)
     ELSE 16128 + BitAnd(address, 31)

\* The CPU stores and loads bytes at nametable addresses: two PPUADDR writes
\* (high byte, low byte) and one PPUDATA access each, on cartridges of the
\* four mirroring modes.
MaxNametableAccesses == 3
NametableRoms == {2, 10, 11, 12}
NametableAddresses == {8192, 9215, 9216, 10240, 11264, 12031, 12288, 16127}

InitNametable ==
  /\ \E rom \in NametableRoms : m = Machine(rom, WiringSetPpu)
  /\ h = HInit(m)
  /\ clock = ClockIdle
  /\ g = GInit
  /\ probe = [log |-> <<>>]

\* The machine after PPUADDR <- high byte, PPUADDR <- low byte
Addressing(s, address) ==
  Once({Call("BusWrite", <<s1, 8198, address % 256>>) :
          s1 \in {Call("BusWrite", <<s, 8198, address \div 256>>)}})

StoreAt ==
  /\ Len(probe.log) < MaxNametableAccesses
  /\ \E address \in NametableAddresses :
       LET value == 85 + Len(probe.log)
       IN /\ m' = Call("BusWrite", <<Addressing(m, address), 8199, value>>)
          /\ probe' = [probe EXCEPT !.log =
                         Append(@, [rw |-> "w", address |-> address, value |-> value])]
  /\ h' = HNext("writeData", NoOutcome)
  /\ UNCHANGED <<clock, g>>

LoadAt ==
  /\ Len(probe.log) < MaxNametableAccesses
  /\ \E address \in NametableAddresses :
       \E rd \in {Call("BusRead", <<Addressing(m, address), 8199>>)} :
          /\ m' = rd.s
          /\ probe' = [probe EXCEPT !.log =
                         Append(@, [rw |-> "r", address |-> address, value |-> rd.v])]
          /\ h' = HNext("readData", [NoOutcome EXCEPT !.ret = rd.v])
  /\ UNCHANGED <<clock, g>>

NextNametable == StoreAt \/ LoadAt

SpecNametable == InitNametable /\ [][NextNametable]_vars

\* The physical nametable bank and the offset in it that a mirroring mode
\* assigns to a nametable address.
NametableCell(mode, address) ==
  LET a == (address - 8192) % 4096
      nt == a \div 1024
      bank == CASE mode = "Horizontal" -> nt \div 2
                [] mode = "Vertical" -> nt % 2
                [] OTHER -> 0
  IN <<bank, a % 1024>>

\* The value of the last store before access k of the log to the cell of
\* address, 0 if there was none.
RECURSIVE StoredBefore(_, _, _, _)
StoredBefore(log, mode, address, k) ==
  IF k <= 1 THEN 0
  ELSE IF log[k - 1].rw = "w" /\
          NametableCell(mode, log[k - 1].address) = NametableCell(mode, address)
  THEN log[k - 1].value
  ELSE StoredBefore(log, mode, address, k - 1)

\* C39: under Horizontal, Vertical and both single-screen modes every
\* nametable address accessed maps into the 2 KiB VRAM array, and a PPUDATA
\* read at a nametable address returns the byte last stored through PPUDATA
\* at that address or at one of its mirrors, whatever was stored in between
\* at addresses of another cell.
C39_Nametables ==
  LET mode == RomImages[m.rom].mirroring
  IN \A k \in 1..Len(probe.log) :
       LET a == probe.log[k].address
       IN /\ BitAnd(mapPpuAddress(m.rom, a), 4095) \in 0..2047
          /\ BitAnd(mapPpuAddressOwn(mode, a), 4095) \in 0..2047
          /\ probe.log[k].rw = "r" =>
               probe.log[k].value = StoredBefore(probe.log, mode, a, k)

\* ------------------------------------------------------ LDA from memory
LdaMemoryOpcodes == {173, 189, 185, 161, 177}

\* The effective address of a 6502 operand in the machine s, for the opcode
\* at s.cpu.PC: absolute, absolute,X, absolute,Y, (indirect,X), (indirect),Y.
EffectiveAddress(s, opcode) ==
  LET c == s.cpu
      b1 == ByteAt(s, c.PC + 1)
      b2 == ByteAt(s, c.PC + 2)
      zp == (b1 + c.X) % 256
  IN CASE opcode = 173 -> b1 + 256 * b2
       [] opcode = 189 -> (b1 + 256 * b2 + c.X) % 65536
       [] opcode = 185 -> (b1 + 256 * b2 + c.Y) % 65536
       [] opcode = 161 -> ByteAt(s, zp) + 256 * ByteAt(s, (zp + 1) % 256)
       [] OTHER -> (ByteAt(s, b1) + 256 * ByteAt(s, (b1 + 1) % 256) + c.Y) % 65536

\* C40: LDA absolute, absolute,X, absolute,Y, (indirect,X) and (indirect),Y
\* load A with the byte at the effective address, set Z and N from that byte
\* and advance PC by the instruction length (3, 3, 3, 2, 2).
C40_LdaLoads ==
  \A opcode \in LdaMemoryOpcodes :
    Executed(opcode) =>
      LET c0 == h.pre.cpu
          byte == ByteAt(h.pre, EffectiveAddress(h.pre, opcode))
          length == IF opcode \in {161, 177} THEN 2 ELSE 3
      IN /\ m.cpu.A = byte
         /\ getFlag(m.cpu.SR, Zero) = (byte = 0)
         /\ getFlag(m.cpu.SR, Negative) = (byte >= 128)
         /\ m.cpu.PC = (c0.PC + length) % 65536

====
